---- MODULE Spec2Model ----
(***************************************************************************)
(* State-machine model of diff_drive_controller::DiffDriveController       *)
(* (src/diff_drive_controller/src/diff_drive_controller.cpp): the control  *)
(* cycle update(), the velocity command subscriber callback and the        *)
(* lifecycle callbacks.                                                    *)
(*                                                                         *)
(* Numbers.  A C++ double is modelled as a pair: <<"fin", v>> is the       *)
(* finite value v/Q (fixed point, Q = 100), <<"nan", 0>> is NaN and        *)
(* <<"inf", s>> is s * infinity.  Times are whole clock ticks of one      *)
(* second; cmd_vel_timeout is in milliseconds, as in the source.           *)
(*                                                                         *)
(* Specifications.  Spec: the whole lifecycle, every handler one step.     *)
(* SpecActive: the controller configured and active, cycles and messages   *)
(* only, with more kinds of message.  SpecRT: the callback's write and     *)
(* the cycle's read of the command channel, statement by statement.        *)
(* SpecConfigure: the transitions and the not-active cycle with a wider   *)
(* set of parameters (empty lists, unknown names, non-positive            *)
(* kinematics).  SpecDeactivate: on_deactivate statement by statement     *)
(* with messages arriving in between.  SpecLimiter: the active controller  *)
(* with velocity, acceleration and jerk limits on its axes.  SpecCycle:    *)
(* update() statement by statement, each publication sent or skipped.      *)
(*                                                                         *)
(* Undefined behaviour (element 0 of an empty vector, a call through a     *)
(* handle that was never resolved) is a choice between ending the process  *)
(* (state "crashed") and going on.                                         *)
(***************************************************************************)
EXTENDS Integers, Sequences, FiniteSets, TLC

\* ------------------------------------------------------------- bounds
\* The clock stops advancing at MaxTime (caps the run length).
MaxTime == 1

\* ------------------------------------------------------------ doubles
Q == 100

Fin(v) == <<"fin", v>>
NaN == <<"nan", 0>>
Inf(s) == <<"inf", s>>
Zero == Fin(0)

IsNan(d) == d[1] = "nan"
IsInf(d) == d[1] = "inf"
IsFinite(d) == d[1] = "fin"

Sgn(v) == IF v < 0 THEN -1 ELSE 1
Abs(v) == IF v < 0 THEN -v ELSE v
\* integer quotient rounded toward zero
Trunc(a, b) == Sgn(a) * Sgn(b) * (Abs(a) \div Abs(b))

DNeg(a) == IF IsFinite(a) THEN Fin(-a[2]) ELSE IF IsInf(a) THEN Inf(-a[2]) ELSE NaN

DAdd(a, b) ==
  IF IsNan(a) \/ IsNan(b) THEN NaN
  ELSE IF IsFinite(a) /\ IsFinite(b) THEN Fin(a[2] + b[2])
  ELSE IF IsInf(a) /\ IsInf(b) THEN (IF a[2] = b[2] THEN a ELSE NaN)
  ELSE IF IsInf(a) THEN a ELSE b

DSub(a, b) == DAdd(a, DNeg(b))

DMul(a, b) ==
  IF IsNan(a) \/ IsNan(b) THEN NaN
  ELSE IF IsFinite(a) /\ IsFinite(b) THEN Fin(Trunc(a[2] * b[2], Q))
  ELSE IF (IsFinite(a) /\ a[2] = 0) \/ (IsFinite(b) /\ b[2] = 0) THEN NaN
  ELSE Inf(Sgn(a[2]) * Sgn(b[2]))

DDiv(a, b) ==
  IF IsNan(a) \/ IsNan(b) THEN NaN
  ELSE IF IsFinite(a) /\ IsFinite(b)
       THEN (IF b[2] = 0
             THEN (IF a[2] = 0 THEN NaN ELSE Inf(Sgn(a[2])))
             ELSE Fin(Trunc(a[2] * Q, b[2])))
  ELSE IF IsInf(a) /\ IsInf(b) THEN NaN
  ELSE IF IsInf(a) THEN Inf(Sgn(a[2]) * Sgn(b[2]))
  ELSE Zero

\* a < b and a > b on doubles (false when either side is NaN)
DLt(a, b) ==
  IF IsNan(a) \/ IsNan(b) THEN FALSE
  ELSE IF IsFinite(a) /\ IsFinite(b) THEN a[2] < b[2]
  ELSE IF IsInf(a) /\ IsInf(b) THEN a[2] < b[2]
  ELSE IF IsInf(a) THEN a[2] < 0 ELSE b[2] > 0

DGt(a, b) == DLt(b, a)

\* std::clamp(v, lo, hi)
DClamp(v, lo, hi) == IF DLt(v, lo) THEN lo ELSE IF DLt(hi, v) THEN hi ELSE v

\* ------------------------------------------------------------ Commands
\* struct Commands {lin, ang, stamp}; Commands() is the zero command
Commands(lin, ang, stamp) == [lin |-> lin, ang |-> ang, stamp |-> stamp]
ZeroCommand == Commands(Zero, Zero, 0)

\* ----------------------------------------------------- Command Channel
\* realtime_tools::RealtimeBuffer<Commands> command_: two slots, the one the
\* real-time side reads and the one the non-real-time side writes, a flag
\* saying the written slot is newer, and the mutex's owner.
\* initRT(data): both slots hold data.
initRT(data) ==
  [realtime_data |-> data, non_realtime_data |-> data,
   new_data_available |-> FALSE, mutex |-> "free"]

\* writeFromNonRT(data), run to completion: under the mutex, fill the
\* non-real-time slot and flag it.
writeFromNonRT(buf, data) ==
  [buf EXCEPT !.non_realtime_data = data, !.new_data_available = TRUE]

\* readFromRT(), the buffer after the call: with the mutex acquired
\* (try_lock), a flagged slot is swapped in; otherwise nothing changes.
readFromRT(buf) ==
  IF buf.mutex = "free" /\ buf.new_data_available
  THEN [buf EXCEPT !.realtime_data = buf.non_realtime_data,
                   !.non_realtime_data = buf.realtime_data,
                   !.new_data_available = FALSE]
  ELSE buf

\* ---------------------------------------------------------- SpeedLimiter
\* SpeedLimiter(has_velocity_limits, has_acceleration_limits, has_jerk_limits,
\*              min_velocity, max_velocity, min_acceleration, max_acceleration,
\*              min_jerk, max_jerk)
SpeedLimiter(hv, ha, hj, vmin, vmax, amin, amax, jmin, jmax) ==
  [has_velocity_limits |-> hv, has_acceleration_limits |-> ha,
   has_jerk_limits |-> hj,
   min_velocity |-> vmin, max_velocity |-> vmax,
   min_acceleration |-> amin, max_acceleration |-> amax,
   min_jerk |-> jmin, max_jerk |-> jmax]

NoLimits == SpeedLimiter(FALSE, FALSE, FALSE, Zero, Zero, Zero, Zero, Zero, Zero)

\* jerk step: the change of the velocity step, (v - v0) - (v0 - v1), is kept
\* within [min_jerk, max_jerk] * dt^2
limit_jerk(L, v, v0, v1, dt) ==
  IF ~L.has_jerk_limits THEN v
  ELSE LET dv  == DSub(v, v0)
           dv0 == DSub(v0, v1)
           dt2 == DMul(dt, dt)
           da  == DClamp(DSub(dv, dv0), DMul(L.min_jerk, dt2), DMul(L.max_jerk, dt2))
       IN DAdd(DAdd(v0, dv0), da)

\* acceleration step that bounds nothing
limit_acceleration_off(L, v, v0, dt) == v

\* acceleration step: v - v0 is kept within [min_acceleration, max_acceleration] * dt
limit_acceleration(L, v, v0, dt) ==
  IF ~L.has_acceleration_limits THEN v
  ELSE DAdd(v0, DClamp(DSub(v, v0), DMul(L.min_acceleration, dt),
                                    DMul(L.max_acceleration, dt)))

\* velocity step: v is clamped to [min_velocity, max_velocity]
limit_velocity(L, v) ==
  IF ~L.has_velocity_limits THEN v ELSE DClamp(v, L.min_velocity, L.max_velocity)

\* limit without the guard on dt
limit_unguarded(L, v, v0, v1, dt) ==
  limit_velocity(L, limit_acceleration(L, limit_jerk(L, v, v0, v1, dt), v0, dt))

\* limit(v, v0, v1, dt): jerk, then acceleration, then velocity; dt <= 0
\* passes v through unchanged.
limit(L, v, v0, v1, dt) ==
  IF ~DGt(dt, Zero) THEN v
  ELSE limit_velocity(L, limit_acceleration(L, limit_jerk(L, v, v0, v1, dt), v0, dt))

\* -------------------------------------------------------------- Odometry
\* cos and sin of a heading given in 1/Q radians, coarsened to the nearest
\* axis direction (values in 1/Q); NaN for a non-finite heading.
Cos(h) ==
  IF ~IsFinite(h) THEN NaN
  ELSE LET m == h[2] % 628
       IN IF m < 79 \/ m >= 550 THEN Fin(Q)
          ELSE IF m >= 236 /\ m < 393 THEN Fin(-Q)
          ELSE Zero

Sin(h) == IF ~IsFinite(h) THEN NaN ELSE Cos(Fin(h[2] - 157))

\* Odometry(): pose at the origin, zero velocity estimate
Odometry ==
  [x |-> Zero, y |-> Zero, heading |-> Zero,
   linear |-> Zero, angular |-> Zero, timestamp |-> 0,
   left_wheel_old_pos |-> Zero, right_wheel_old_pos |-> Zero,
   wheel_separation |-> Zero, left_wheel_radius |-> Zero,
   right_wheel_radius |-> Zero]

\* resetOdometry(): zero the pose and the velocity estimate
resetOdometry(o) ==
  [o EXCEPT !.x = Zero, !.y = Zero, !.heading = Zero,
            !.linear = Zero, !.angular = Zero]

\* setWheelParams(separation, left radius, right radius)
setWheelParams(o, separation, left_radius, right_radius) ==
  [o EXCEPT !.wheel_separation = separation,
            !.left_wheel_radius = left_radius,
            !.right_wheel_radius = right_radius]

\* integrate a displacement (linear, angular): advance along the direction at
\* the middle of the turn, then turn
integrate(o, linear, angular) ==
  LET direction == DAdd(o.heading, DDiv(angular, Fin(2 * Q)))
  IN [o EXCEPT !.x = DAdd(o.x, DMul(linear, Cos(direction))),
               !.y = DAdd(o.y, DMul(linear, Sin(direction))),
               !.heading = DAdd(o.heading, angular)]

\* updateOpenLoop(linear, angular, time): integrate the commanded velocity
\* over the time since the last call; the velocity estimate is the command
updateOpenLoop(o, linear, angular, time) ==
  LET dt == Fin((time - o.timestamp) * Q)
      moved == integrate(o, DMul(linear, dt), DMul(angular, dt))
  IN [moved EXCEPT !.linear = linear, !.angular = angular, !.timestamp = time]

\* update(left_pos, right_pos, time): integrate the wheel travel since the
\* last call and take the travel over the elapsed time as the velocity
\* estimate; a call with no time elapsed does nothing
odom_update(o, left_pos, right_pos, time) ==
  LET dt == Fin((time - o.timestamp) * Q)
      left_cur == DMul(left_pos, o.left_wheel_radius)
      right_cur == DMul(right_pos, o.right_wheel_radius)
      left_est == DSub(left_cur, o.left_wheel_old_pos)
      right_est == DSub(right_cur, o.right_wheel_old_pos)
      linear == DDiv(DAdd(right_est, left_est), Fin(2 * Q))
      angular == DDiv(DSub(right_est, left_est), o.wheel_separation)
      moved == integrate(o, linear, angular)
  IN IF ~DGt(dt, Zero) THEN o
     ELSE [moved EXCEPT !.left_wheel_old_pos = left_cur,
                        !.right_wheel_old_pos = right_cur,
                        !.linear = DDiv(linear, dt),
                        !.angular = DDiv(angular, dt),
                        !.timestamp = time]

\* ------------------------------------------------------------- hardware
\* The joints and operation modes the robot hardware knows by name.
Joints == {"l1", "l2", "r1", "r2"}
OpNames == {"op", "op2"}

\* ---------------------------------------------------------- parameters
\* The node's parameters as read by on_configure.
BaseParams ==
  [left_wheel_names |-> <<"l1", "l2">>, right_wheel_names |-> <<"r1", "r2">>,
   write_op_modes |-> <<"op">>,
   wheel_separation |-> Fin(50), wheel_radius |-> Fin(10),
   wheel_separation_multiplier |-> Fin(Q),
   left_wheel_radius_multiplier |-> Fin(Q),
   right_wheel_radius_multiplier |-> Fin(Q),
   open_loop |-> TRUE, cmd_vel_timeout |-> 500,
   allow_multiple_cmd_vel_publishers |-> FALSE,
   linear |-> NoLimits, angular |-> NoLimits]

AccelLimits ==
  SpeedLimiter(FALSE, TRUE, FALSE, Zero, Zero, Fin(-50), Fin(50), Zero, Zero)

\* open loop, two wheels per side, no limits, one publisher allowed
OpenLoopParams == BaseParams
\* closed loop, a right radius multiplier of 2, any number of publishers,
\* two operation modes
ClosedLoopParams ==
  [BaseParams EXCEPT !.open_loop = FALSE,
                     !.write_op_modes = <<"op", "op2">>,
                     !.right_wheel_radius_multiplier = Fin(2 * Q),
                     !.allow_multiple_cmd_vel_publishers = TRUE]
\* acceleration limits of 0.5 on both axes, the separation looked up
LimitedParams ==
  [BaseParams EXCEPT !.wheel_separation = Zero,
                     !.linear = AccelLimits, !.angular = AccelLimits]
\* one left wheel, two right wheels
MismatchedParams == [BaseParams EXCEPT !.left_wheel_names = <<"l1">>]

ParamSets == {OpenLoopParams, ClosedLoopParams, LimitedParams, MismatchedParams}

\* The (linear.x, angular.z) a velocity message can carry: one finite
\* twist and two non-finite ones
Twists == { <<Fin(Q), Fin(Q)>>, <<NaN, Zero>>, <<Fin(Q), Inf(-1)>> }
\* the same with a pure advance and a pure turn added
MixTwists == Twists \cup { <<Fin(Q), Zero>>, <<Zero, Fin(Q)>> }
\* What a wheel's position state handle can read.
PosValues == {Fin(Q), NaN, Inf(1)}
\* get_publisher_count() of the command topic
PublisherCounts == {1, 2}

\* ---------------------------------------------------------------- state
VARIABLES
  state,                                \* lifecycle_node_->get_current_state()
  now,                                  \* lifecycle_node_->get_clock()->now()
  left_wheel_names_, right_wheel_names_, write_op_names_,
  wheel_params_, odom_params_, cmd_vel_timeout_,
  allow_multiple_cmd_vel_publishers_,
  limiter_linear_, limiter_angular_,
  registered_left_wheel_handles_, registered_right_wheel_handles_,
  registered_operation_mode_handles_,
  odometry_,
  command_, command_struct_,
  last0_cmd_, last1_cmd_, previous_update_timestamp_,
  subscriber_is_active_, is_halted,
  velocity_command_subscriber_,         \* the subscription exists
  joint_cmd,                            \* hardware: each joint's velocity command
  op_mode,                              \* hardware: each operation mode
  ev,                                   \* the last call and what it returned
  inactive_run,                         \* history: the run of not-active cycles
  \* the callback and the cycle, statement by statement (SpecRT)
  writer_pc,                            \* the callback's statement and step
  writer_msg,                           \* the message the callback handles
  reader_pc,                            \* the cycle's step in reading the channel
  copied_cmd,                           \* update()'s local copy of the command
  written,                              \* history: the commands messages carried
  transition_pc,                        \* on_deactivate's statements done so far
  \* the cycle, statement by statement (SpecCycle)
  update_pc,                            \* update()'s statements done so far
  published                             \* the messages the cycle has published

config_vars ==
  <<left_wheel_names_, right_wheel_names_, write_op_names_, wheel_params_,
    odom_params_, cmd_vel_timeout_, allow_multiple_cmd_vel_publishers_,
    limiter_linear_, limiter_angular_>>
handle_vars ==
  <<registered_left_wheel_handles_, registered_right_wheel_handles_,
    registered_operation_mode_handles_>>
cycle_vars == <<odometry_, last0_cmd_, last1_cmd_, previous_update_timestamp_>>
channel_vars == <<command_, command_struct_>>
hw_vars == <<joint_cmd, op_mode>>

vars ==
  <<state, now, config_vars, handle_vars, cycle_vars, channel_vars,
    subscriber_is_active_, is_halted, velocity_command_subscriber_,
    hw_vars, ev, inactive_run, writer_pc, writer_msg, reader_pc, copied_cmd,
    written, transition_pc, update_pc, published>>

rt_vars ==
  <<writer_pc, writer_msg, reader_pc, copied_cmd, written, transition_pc,
    update_pc, published>>

\* The topics the controller publishes on: the pose, the transform, the
\* limited command and the state of the wheel joints.
Topics == {"odom", "tf", "cmd_vel_out", "wheel_joint_controller_state"}
\* nothing published on any topic (a message is a non-empty tuple)
NoPublications == [topic \in Topics |-> <<>>]

Event(op, ret, arg) == [op |-> op, ret |-> ret, arg |-> arg]

\* The controller as constructed (default constructor and member
\* initialisers) and the hardware at rest.
InitWorld ==
  [left_wheel_names_ |-> <<>>,
   right_wheel_names_ |-> <<>>,
   write_op_names_ |-> <<>>,
   wheel_params_ |->
     [separation |-> Zero, radius |-> Zero, wheels_per_side |-> 0,
      separation_multiplier |-> Fin(Q), left_radius_multiplier |-> Fin(Q),
      right_radius_multiplier |-> Fin(Q)],
   odom_params_ |-> [open_loop |-> FALSE],
   cmd_vel_timeout_ |-> 500,
   allow_multiple_cmd_vel_publishers_ |-> FALSE,
   limiter_linear_ |-> NoLimits,
   limiter_angular_ |-> NoLimits,
   registered_left_wheel_handles_ |-> <<>>,
   registered_right_wheel_handles_ |-> <<>>,
   registered_operation_mode_handles_ |-> <<>>,
   odometry_ |-> Odometry,
   command_ |-> initRT(ZeroCommand),
   command_struct_ |-> ZeroCommand,
   last0_cmd_ |-> ZeroCommand,
   last1_cmd_ |-> ZeroCommand,
   previous_update_timestamp_ |-> 0,
   subscriber_is_active_ |-> FALSE,
   is_halted |-> FALSE,
   velocity_command_subscriber_ |-> FALSE,
   joint_cmd |-> [j \in Joints |-> Zero],
   op_mode |-> [m \in OpNames |-> "INACTIVE"]]

\* the members and the hardware are as the record w says
Holds(w) ==
  /\ left_wheel_names_ = w.left_wheel_names_
  /\ right_wheel_names_ = w.right_wheel_names_
  /\ write_op_names_ = w.write_op_names_
  /\ wheel_params_ = w.wheel_params_
  /\ odom_params_ = w.odom_params_
  /\ cmd_vel_timeout_ = w.cmd_vel_timeout_
  /\ allow_multiple_cmd_vel_publishers_ = w.allow_multiple_cmd_vel_publishers_
  /\ limiter_linear_ = w.limiter_linear_
  /\ limiter_angular_ = w.limiter_angular_
  /\ registered_left_wheel_handles_ = w.registered_left_wheel_handles_
  /\ registered_right_wheel_handles_ = w.registered_right_wheel_handles_
  /\ registered_operation_mode_handles_ = w.registered_operation_mode_handles_
  /\ odometry_ = w.odometry_
  /\ command_ = w.command_
  /\ command_struct_ = w.command_struct_
  /\ last0_cmd_ = w.last0_cmd_
  /\ last1_cmd_ = w.last1_cmd_
  /\ previous_update_timestamp_ = w.previous_update_timestamp_
  /\ subscriber_is_active_ = w.subscriber_is_active_
  /\ is_halted = w.is_halted
  /\ velocity_command_subscriber_ = w.velocity_command_subscriber_
  /\ joint_cmd = w.joint_cmd
  /\ op_mode = w.op_mode

\* The node unconfigured, the controller as constructed.
Init ==
  /\ state = "unconfigured"
  /\ now = 0
  /\ Holds(InitWorld)
  /\ ev = Event("init", "SUCCESS", <<>>)
  /\ inactive_run = "new"
  /\ writer_pc = <<0, "">>
  /\ writer_msg = <<Zero, Zero>>
  /\ reader_pc = "idle"
  /\ copied_cmd = ZeroCommand
  /\ written = {}
  /\ transition_pc = 0
  /\ update_pc = 0
  /\ published = NoPublications

\* The controller's members and the hardware they point to, as one record,
\* so that a handler is a function from the record before the call to the
\* record after it.
World ==
  [left_wheel_names_ |-> left_wheel_names_,
   right_wheel_names_ |-> right_wheel_names_,
   write_op_names_ |-> write_op_names_,
   wheel_params_ |-> wheel_params_,
   odom_params_ |-> odom_params_,
   cmd_vel_timeout_ |-> cmd_vel_timeout_,
   allow_multiple_cmd_vel_publishers_ |-> allow_multiple_cmd_vel_publishers_,
   limiter_linear_ |-> limiter_linear_,
   limiter_angular_ |-> limiter_angular_,
   registered_left_wheel_handles_ |-> registered_left_wheel_handles_,
   registered_right_wheel_handles_ |-> registered_right_wheel_handles_,
   registered_operation_mode_handles_ |-> registered_operation_mode_handles_,
   odometry_ |-> odometry_,
   command_ |-> command_,
   command_struct_ |-> command_struct_,
   last0_cmd_ |-> last0_cmd_,
   last1_cmd_ |-> last1_cmd_,
   previous_update_timestamp_ |-> previous_update_timestamp_,
   subscriber_is_active_ |-> subscriber_is_active_,
   is_halted |-> is_halted,
   velocity_command_subscriber_ |-> velocity_command_subscriber_,
   joint_cmd |-> joint_cmd,
   op_mode |-> op_mode]

Commit(w) ==
  /\ left_wheel_names_' = w.left_wheel_names_
  /\ right_wheel_names_' = w.right_wheel_names_
  /\ write_op_names_' = w.write_op_names_
  /\ wheel_params_' = w.wheel_params_
  /\ odom_params_' = w.odom_params_
  /\ cmd_vel_timeout_' = w.cmd_vel_timeout_
  /\ allow_multiple_cmd_vel_publishers_' = w.allow_multiple_cmd_vel_publishers_
  /\ limiter_linear_' = w.limiter_linear_
  /\ limiter_angular_' = w.limiter_angular_
  /\ registered_left_wheel_handles_' = w.registered_left_wheel_handles_
  /\ registered_right_wheel_handles_' = w.registered_right_wheel_handles_
  /\ registered_operation_mode_handles_' = w.registered_operation_mode_handles_
  /\ odometry_' = w.odometry_
  /\ command_' = w.command_
  /\ command_struct_' = w.command_struct_
  /\ last0_cmd_' = w.last0_cmd_
  /\ last1_cmd_' = w.last1_cmd_
  /\ previous_update_timestamp_' = w.previous_update_timestamp_
  /\ subscriber_is_active_' = w.subscriber_is_active_
  /\ is_halted' = w.is_halted
  /\ velocity_command_subscriber_' = w.velocity_command_subscriber_
  /\ joint_cmd' = w.joint_cmd
  /\ op_mode' = w.op_mode

\* the set of the elements of a sequence
Range(seq) == {seq[i] : i \in 1..Len(seq)}

\* ------------------------------------------------------ set_op_mode, halt
\* set_op_mode that sets the first registered handle only
set_op_mode_first(w, mode) ==
  [w EXCEPT !.op_mode =
     [m \in OpNames |->
        IF /\ w.registered_operation_mode_handles_ # <<>>
           /\ m = w.registered_operation_mode_handles_[1]
        THEN mode ELSE @[m]]]

\* set_op_mode(mode): every registered operation mode handle is set to mode
set_op_mode(w, mode) ==
  [w EXCEPT !.op_mode =
     [m \in OpNames |->
        IF m \in Range(w.registered_operation_mode_handles_) THEN mode ELSE @[m]]]

\* halt that stops the left wheels only
halt_left_only(w) ==
  set_op_mode(
    [w EXCEPT !.joint_cmd =
       [j \in Joints |->
          IF j \in Range(w.registered_left_wheel_handles_)
          THEN Zero ELSE @[j]]],
    "ACTIVE")

\* halt(): set_cmd(0) on every registered left and right wheel handle, then
\* operation mode ACTIVE
halt(w) ==
  set_op_mode(
    [w EXCEPT !.joint_cmd =
       [j \in Joints |->
          IF j \in Range(w.registered_left_wheel_handles_)
                     \cup Range(w.registered_right_wheel_handles_)
          THEN Zero ELSE @[j]]],
    "ACTIVE")

\* ------------------------------------------------------------------ reset
\* reset that leaves the handles registered
reset_keeping_handles(w) ==
  [w EXCEPT !.odometry_ = resetOdometry(@),
            !.subscriber_is_active_ = FALSE,
            !.velocity_command_subscriber_ = FALSE,
            !.is_halted = FALSE]

\* reset that leaves the odometry as it is
reset_keeping_pose(w) ==
  [w EXCEPT !.registered_left_wheel_handles_ = <<>>,
            !.registered_right_wheel_handles_ = <<>>,
            !.registered_operation_mode_handles_ = <<>>,
            !.subscriber_is_active_ = FALSE,
            !.velocity_command_subscriber_ = FALSE,
            !.is_halted = FALSE]

\* reset that also zeroes the channel and the two retained commands
reset_zeroing_commands(w) ==
  [w EXCEPT !.odometry_ = resetOdometry(@),
            !.registered_left_wheel_handles_ = <<>>,
            !.registered_right_wheel_handles_ = <<>>,
            !.registered_operation_mode_handles_ = <<>>,
            !.subscriber_is_active_ = FALSE,
            !.velocity_command_subscriber_ = FALSE,
            !.is_halted = FALSE,
            !.command_ = initRT(ZeroCommand),
            !.last0_cmd_ = ZeroCommand,
            !.last1_cmd_ = ZeroCommand]

\* reset(): odometry reset, handles cleared, subscriber inactive and
\* destroyed, is_halted cleared; always returns true
reset(w) ==
  [w EXCEPT !.odometry_ = resetOdometry(@),
            !.registered_left_wheel_handles_ = <<>>,
            !.registered_right_wheel_handles_ = <<>>,
            !.registered_operation_mode_handles_ = <<>>,
            !.subscriber_is_active_ = FALSE,
            !.velocity_command_subscriber_ = FALSE,
            !.is_halted = FALSE]

\* ----------------------------------------------------------------- update
\* The loop over the wheels of update(): reads each pair of positions in
\* index order, stops with ok = FALSE at the first pair with a NaN, else
\* accumulates both sums.
RECURSIVE read_positions(_, _, _, _, _, _)
read_positions(left_pos, right_pos, index, n, left_sum, right_sum) ==
  IF index > n
  THEN [ok |-> TRUE, left |-> left_sum, right |-> right_sum]
  ELSE IF IsNan(left_pos[index]) \/ IsNan(right_pos[index])
  THEN [ok |-> FALSE, left |-> left_sum, right |-> right_sum]
  ELSE read_positions(left_pos, right_pos, index + 1, n,
                      DAdd(left_sum, left_pos[index]),
                      DAdd(right_sum, right_pos[index]))

\* dt > cmd_vel_timeout_, dt the age of the command at current_time (the
\* clock counts seconds, the timeout milliseconds)
timed_out(cmd, current_time, timeout) ==
  1000 * (current_time - cmd.stamp) > timeout

\* brake that lets a timed-out command through
brake_off(cmd, current_time, timeout) == cmd

\* Brake if cmd_vel has timeout
brake(cmd, current_time, timeout) ==
  IF timed_out(cmd, current_time, timeout)
  THEN [cmd EXCEPT !.lin = Zero, !.ang = Zero]
  ELSE cmd

\* left mix with the turn added instead of subtracted
velocity_left_added(cmd, wheel_separation, left_wheel_radius) ==
  DDiv(DAdd(cmd.lin, DDiv(DMul(cmd.ang, wheel_separation), Fin(2 * Q))),
       left_wheel_radius)

\* Compute wheels velocities
velocity_left(cmd, wheel_separation, left_wheel_radius) ==
  DDiv(DSub(cmd.lin, DDiv(DMul(cmd.ang, wheel_separation), Fin(2 * Q))),
       left_wheel_radius)

velocity_right(cmd, wheel_separation, right_wheel_radius) ==
  DDiv(DAdd(cmd.lin, DDiv(DMul(cmd.ang, wheel_separation), Fin(2 * Q))),
       right_wheel_radius)

\* Set wheels velocities: set_cmd on the left and the right handle of every
\* index below wheels_per_side
RECURSIVE set_wheels(_, _, _, _, _, _, _)
set_wheels(cmds, left_handles, right_handles, index, n, vel_left, vel_right) ==
  IF index > n THEN cmds
  ELSE set_wheels(
         [[cmds EXCEPT ![left_handles[index]] = vel_left]
                EXCEPT ![right_handles[index]] = vel_right],
         left_handles, right_handles, index + 1, n, vel_left, vel_right)

\* odometry step that integrates whatever was read before it looks at the
\* validity of the readings
update_odometry_first(w, current_time, left_pos, right_pos) ==
  LET n == w.wheel_params_.wheels_per_side
      read == read_positions(left_pos, right_pos, 1, n, Zero, Zero)
  IN IF w.odom_params_.open_loop
     THEN [ok |-> TRUE,
           w |-> [w EXCEPT !.odometry_ =
                    updateOpenLoop(@, w.last0_cmd_.lin, w.last0_cmd_.ang,
                                   current_time)]]
     ELSE [ok |-> read.ok,
           w |-> [w EXCEPT !.odometry_ =
                    odom_update(@, DDiv(read.left, Fin(n * Q)),
                                DDiv(read.right, Fin(n * Q)), current_time)]]

\* odometry step that in open loop integrates the command now in the
\* channel
update_odometry_from_channel(w, current_time, left_pos, right_pos) ==
  LET n == w.wheel_params_.wheels_per_side
      read == read_positions(left_pos, right_pos, 1, n, Zero, Zero)
      stored == readFromRT(w.command_).realtime_data
  IN IF w.odom_params_.open_loop
     THEN [ok |-> TRUE,
           w |-> [w EXCEPT !.odometry_ =
                    updateOpenLoop(@, stored.lin, stored.ang, current_time)]]
     ELSE IF ~read.ok THEN [ok |-> FALSE, w |-> w]
     ELSE [ok |-> TRUE,
           w |-> [w EXCEPT !.odometry_ =
                    odom_update(@, DDiv(read.left, Fin(n * Q)),
                                DDiv(read.right, Fin(n * Q)), current_time)]]

\* The odometry step of update(): in open loop from the last command, else
\* from the mean of the positions read; a NaN among the positions read ends
\* the step before the odometry is touched: [ok, w]
update_odometry(w, current_time, left_pos, right_pos) ==
  LET n == w.wheel_params_.wheels_per_side
      read == read_positions(left_pos, right_pos, 1, n, Zero, Zero)
  IN IF w.odom_params_.open_loop
     THEN [ok |-> TRUE,
           w |-> [w EXCEPT !.odometry_ =
                    updateOpenLoop(@, w.last0_cmd_.lin, w.last0_cmd_.ang,
                                   current_time)]]
     ELSE IF ~read.ok THEN [ok |-> FALSE, w |-> w]
     ELSE [ok |-> TRUE,
           w |-> [w EXCEPT !.odometry_ =
                    odom_update(@, DDiv(read.left, Fin(n * Q)),
                                DDiv(read.right, Fin(n * Q)), current_time)]]

\* curr_cmd a reference to the slot read: what the cycle does to curr_cmd
\* is done to the channel
curr_cmd_by_reference(buffer, cmd) == [buffer EXCEPT !.realtime_data = cmd]

\* Commands curr_cmd = *(command_.readFromRT()): curr_cmd is a copy, and
\* what the cycle does to it leaves the channel as the read left it
curr_cmd_by_value(buffer, cmd) == buffer

\* history shift that overwrites the last command before it is kept
push_back_overwritten(w, cmd, current_time) ==
  [w EXCEPT !.last0_cmd_ = cmd,
            !.last1_cmd_ = cmd,
            !.previous_update_timestamp_ = current_time]

\* push back: last1_cmd_ = last0_cmd_; last0_cmd_ = curr_cmd;
\* previous_update_timestamp_ = current_time
push_back(w, cmd, current_time) ==
  [w EXCEPT !.last1_cmd_ = w.last0_cmd_,
            !.last0_cmd_ = cmd,
            !.previous_update_timestamp_ = current_time]

\* update() in the active state with the clock at current_time and the
\* wheels' position handles reading left_pos and right_pos:
\* [ret, w (the members after the call), stored (the command read)]
update_active(w, current_time, left_pos, right_pos) ==
  LET wheels == w.wheel_params_
      wheel_separation == DMul(wheels.separation_multiplier, wheels.separation)
      left_wheel_radius == DMul(wheels.left_radius_multiplier, wheels.radius)
      right_wheel_radius == DMul(wheels.right_radius_multiplier, wheels.radius)
      odom == update_odometry(w, current_time, left_pos, right_pos)
      buffer == readFromRT(w.command_)
      stored == buffer.realtime_data
      braked == brake(stored, current_time, w.cmd_vel_timeout_)
      update_dt == Fin((current_time - w.previous_update_timestamp_) * Q)
      curr_cmd ==
        [braked EXCEPT
           !.lin = limit(w.limiter_linear_, braked.lin, w.last0_cmd_.lin,
                         w.last1_cmd_.lin, update_dt),
           !.ang = limit(w.limiter_angular_, braked.ang, w.last0_cmd_.ang,
                         w.last1_cmd_.ang, update_dt)]
      vel_left == velocity_left(curr_cmd, wheel_separation, left_wheel_radius)
      vel_right == velocity_right(curr_cmd, wheel_separation, right_wheel_radius)
      driven ==
        [odom.w EXCEPT
           !.command_ = curr_cmd_by_value(buffer, curr_cmd),
           !.joint_cmd = set_wheels(@, w.registered_left_wheel_handles_,
                                    w.registered_right_wheel_handles_,
                                    1, wheels.wheels_per_side, vel_left, vel_right)]
  IN IF ~odom.ok
     THEN [ret |-> "ERROR", w |-> odom.w, stored |-> ZeroCommand]
     ELSE [ret |-> "SUCCESS",
           w |-> push_back(set_op_mode(driven, "ACTIVE"), curr_cmd, current_time),
           stored |-> stored]

\* not-active cycle that forgets that it has halted
update_inactive_unflagged(w) == IF ~w.is_halted THEN halt(w) ELSE w

\* update() when the lifecycle state is not ACTIVE: halt once
update_inactive(w) ==
  IF ~w.is_halted THEN [halt(w) EXCEPT !.is_halted = TRUE] ELSE w

\* ------------------------------------------- velocity command subscriber
\* callback that does not look at the values of the message
velocity_command_callback_unchecked(w, lin, ang, publisher_count, time) ==
  IF ~w.subscriber_is_active_ THEN w
  ELSE IF ~w.allow_multiple_cmd_vel_publishers_ /\ publisher_count > 1
  THEN halt(w)
  ELSE LET filled == Commands(lin, ang, time)
       IN [w EXCEPT !.command_struct_ = filled,
                    !.command_ = writeFromNonRT(@, filled)]

\* callback that publishes the command without stamping it
velocity_command_callback_unstamped(w, lin, ang, publisher_count, time) ==
  IF ~w.subscriber_is_active_ THEN w
  ELSE IF ~w.allow_multiple_cmd_vel_publishers_ /\ publisher_count > 1
  THEN halt(w)
  ELSE IF ~IsFinite(ang) \/ ~IsFinite(lin) THEN w
  ELSE LET filled == Commands(lin, ang, w.command_struct_.stamp)
       IN [w EXCEPT !.command_struct_ = filled,
                    !.command_ = writeFromNonRT(@, filled)]

\* The subscription's callback for a Twist carrying (lin, ang), with
\* publisher_count publishers on the topic and the clock at time.
velocity_command_callback(w, lin, ang, publisher_count, time) ==
  IF ~w.subscriber_is_active_ THEN w
  ELSE IF ~w.allow_multiple_cmd_vel_publishers_ /\ publisher_count > 1
  THEN halt(w)
  ELSE IF ~IsFinite(ang) \/ ~IsFinite(lin) THEN w
  ELSE LET filled == Commands(lin, ang, time)
       IN [w EXCEPT !.command_struct_ = filled,
                    !.command_ = writeFromNonRT(@, filled)]

\* ------------------------------------------------------------ on_configure
\* What the robot description gives when it is looked up.
Urdfs ==
  { [found |-> FALSE, separation |-> Zero, radius |-> Zero],
    [found |-> TRUE, separation |-> Fin(50), radius |-> Fin(10)] }

\* set_odom_params_from_urdf: nothing to do unless the separation or the
\* radius is to be looked up; then the description gives them or the call fails
set_odom_params_from_urdf(w, lookup_wheel_separation, lookup_wheel_radius, urdf) ==
  IF ~(lookup_wheel_separation \/ lookup_wheel_radius) THEN [ok |-> TRUE, w |-> w]
  ELSE IF ~urdf.found THEN [ok |-> FALSE, w |-> w]
  ELSE [ok |-> TRUE,
        w |-> [w EXCEPT
                 !.wheel_params_.separation =
                    IF lookup_wheel_separation THEN urdf.separation ELSE @,
                 !.wheel_params_.radius =
                    IF lookup_wheel_radius THEN urdf.radius ELSE @]]

\* the handle the hardware gives for a name: the joint, or none
resolve(name, known) == IF name \in known THEN name ELSE "null"

\* handles resized to the names, then resolved in order up to the first
\* name the hardware does not know
resolve_handles(names, known) ==
  LET bad == {i \in 1..Len(names) : names[i] \notin known}
      first_bad == IF bad = {} THEN Len(names) + 1
                   ELSE CHOOSE i \in bad : \A k \in bad : i <= k
  IN [ok |-> bad = {},
      handles |-> [i \in 1..Len(names) |->
                     IF i < first_bad THEN resolve(names[i], known) ELSE "null"]]

\* configure_side(side, wheel_names, registered_handles, robot_hardware)
configure_side(wheel_names, registered_handles) ==
  IF wheel_names = <<>>
  THEN [ret |-> "ERROR", handles |-> registered_handles]
  ELSE LET r == resolve_handles(wheel_names, Joints)
       IN [ret |-> IF r.ok THEN "SUCCESS" ELSE "FAILURE", handles |-> r.handles]

\* size check that lets every pair of lists through
sizes_differ_unchecked(left_names, right_names) == FALSE

\* left_wheel_names_.size() != right_wheel_names_.size()
sizes_differ(left_names, right_names) == Len(left_names) # Len(right_names)

\* zeroing that leaves the two retained commands as they are
zero_commands_channel_only(w) == [w EXCEPT !.command_ = initRT(ZeroCommand)]

\* Zero-initialize command; fill last two commands with default constructed
\* commands
zero_commands(w) ==
  [w EXCEPT !.command_ = initRT(ZeroCommand),
            !.last0_cmd_ = ZeroCommand,
            !.last1_cmd_ = ZeroCommand]

\* on_configure with the parameters p, the clock at time, the robot
\* description urdf and robot_hardware telling whether robot_hardware_.lock()
\* gives the hardware: [ret, w]
on_configure(w, p, time, urdf, robot_hardware) ==
  LET w1 == [reset(w) EXCEPT
               !.left_wheel_names_ = p.left_wheel_names,
               !.right_wheel_names_ = p.right_wheel_names,
               !.write_op_names_ = p.write_op_modes,
               !.wheel_params_.separation = p.wheel_separation,
               !.wheel_params_.radius = p.wheel_radius,
               !.wheel_params_.separation_multiplier = p.wheel_separation_multiplier,
               !.wheel_params_.left_radius_multiplier = p.left_wheel_radius_multiplier,
               !.wheel_params_.right_radius_multiplier = p.right_wheel_radius_multiplier]
      looked == set_odom_params_from_urdf(w1, w1.wheel_params_.separation = Zero,
                                          w1.wheel_params_.radius = Zero, urdf)
      w2 == looked.w
      wheels == w2.wheel_params_
      w3 == [w2 EXCEPT
               !.odometry_ = setWheelParams(@,
                   DMul(wheels.separation_multiplier, wheels.separation),
                   DMul(wheels.left_radius_multiplier, wheels.radius),
                   DMul(wheels.right_radius_multiplier, wheels.radius)),
               !.odom_params_.open_loop = p.open_loop,
               !.cmd_vel_timeout_ = p.cmd_vel_timeout,
               !.allow_multiple_cmd_vel_publishers_ = p.allow_multiple_cmd_vel_publishers,
               !.limiter_linear_ = p.linear,
               !.limiter_angular_ = p.angular]
      left_result == configure_side(w3.left_wheel_names_, w3.registered_left_wheel_handles_)
      right_result == configure_side(w3.right_wheel_names_, w3.registered_right_wheel_handles_)
      w4 == [w3 EXCEPT !.registered_left_wheel_handles_ = left_result.handles,
                       !.registered_right_wheel_handles_ = right_result.handles]
      ops == resolve_handles(w4.write_op_names_, OpNames)
      w5 == [w4 EXCEPT !.registered_operation_mode_handles_ = ops.handles]
      w6 == [zero_commands(w5) EXCEPT
               !.wheel_params_.wheels_per_side = Len(w5.registered_left_wheel_handles_),
               !.velocity_command_subscriber_ = TRUE,
               !.previous_update_timestamp_ = time]
  IN IF ~looked.ok THEN [ret |-> "FAILURE", w |-> w1]
     ELSE IF sizes_differ(w3.left_wheel_names_, w3.right_wheel_names_)
     THEN [ret |-> "ERROR", w |-> w3]
     ELSE IF ~robot_hardware THEN [ret |-> "ERROR", w |-> w3]
     ELSE IF left_result.ret = "FAILURE" \/ right_result.ret = "FAILURE"
     THEN [ret |-> "FAILURE", w |-> w4]
     ELSE IF ~ops.ok THEN [ret |-> "FAILURE", w |-> w5]
     ELSE IF \/ w5.registered_left_wheel_handles_ = <<>>
             \/ w5.registered_right_wheel_handles_ = <<>>
             \/ w5.registered_operation_mode_handles_ = <<>>
     THEN [ret |-> "ERROR", w |-> w5]
     ELSE [ret |-> "SUCCESS", w |-> set_op_mode(w6, "INACTIVE")]

\* ------------------------------------------------- lifecycle callbacks
on_activate(w) == [w EXCEPT !.is_halted = FALSE, !.subscriber_is_active_ = TRUE]

\* deactivation that leaves the subscriber active
on_deactivate_listening(w) == halt(w)

on_deactivate(w) == [halt(w) EXCEPT !.subscriber_is_active_ = FALSE]

on_cleanup(w) == reset(halt(w))

on_error(w) == reset(w)

on_shutdown(w) == reset(halt(w))

\* ---------------------------------------------------------------- actions
\* The clock advances.
Tick ==
  /\ now < MaxTime
  /\ now' = now + 1
  /\ UNCHANGED <<state, config_vars, handle_vars, cycle_vars, channel_vars,
                 subscriber_is_active_, is_halted, velocity_command_subscriber_,
                 hw_vars, ev, inactive_run, rt_vars>>

\* the run of not-active cycles after a call that clears is_halted
Cleared(run) == IF run = "halted" THEN "cleared" ELSE run

\* What a statement with undefined behaviour can do: end the process, or
\* go on as if the access had not been made.
Undefined == {"fault", "continue"}

\* The call op ends the process.
Crash(op) ==
  /\ state' = "crashed"
  /\ ev' = Event(op, "FAULT", <<>>)
  /\ Commit(World)
  /\ inactive_run' = inactive_run

\* left_wheel_names_[0], right_wheel_names_[0]: the first element of a list
\* that may be empty
FrontOutcomes(p) ==
  IF p.left_wheel_names = <<>> \/ p.right_wheel_names = <<>>
  THEN Undefined ELSE {"defined"}

\* a handle among those registered was resized in but never resolved (a
\* null pointer)
Unresolved(w) ==
  "null" \in Range(w.registered_left_wheel_handles_)
                \cup Range(w.registered_right_wheel_handles_)
                \cup Range(w.registered_operation_mode_handles_)

\* halt() calls set_cmd and set_mode through every registered handle
HaltOutcomes(w) == IF Unresolved(w) THEN Undefined ELSE {"defined"}

\* The configure transition with the parameters p: on_configure, and
\* on_error when it returns ERROR.
ConfigureOn(p, urdf, robot_hardware, outcome) ==
  /\ state = "unconfigured"
  /\ outcome \in FrontOutcomes(p)
  /\ IF outcome = "fault"
     THEN Crash("configure")
     ELSE LET r == on_configure(World, p, now, urdf, robot_hardware)
          IN /\ Commit(IF r.ret = "ERROR" THEN on_error(r.w) ELSE r.w)
             /\ state' = IF r.ret = "SUCCESS" THEN "inactive" ELSE "unconfigured"
             /\ ev' = Event("configure", r.ret, <<>>)
             /\ inactive_run' = Cleared(inactive_run)
  /\ UNCHANGED <<now, rt_vars>>

ConfigureFrom(params) ==
  \E p \in params, urdf \in Urdfs, robot_hardware \in BOOLEAN,
     outcome \in Undefined \cup {"defined"} :
    ConfigureOn(p, urdf, robot_hardware, outcome)

Configure == ConfigureFrom(ParamSets)

Activate ==
  /\ state = "inactive"
  /\ Commit(on_activate(World))
  /\ state' = "active"
  /\ ev' = Event("activate", "SUCCESS", <<>>)
  /\ inactive_run' = Cleared(inactive_run)
  /\ UNCHANGED <<now, rt_vars>>

Deactivate ==
  /\ state = "active"
  /\ Commit(on_deactivate(World))
  /\ state' = "inactive"
  /\ ev' = Event("deactivate", "SUCCESS", <<>>)
  /\ UNCHANGED <<now, inactive_run, rt_vars>>

Cleanup ==
  /\ state = "inactive"
  /\ Commit(on_cleanup(World))
  /\ state' = "unconfigured"
  /\ ev' = Event("cleanup", "SUCCESS", <<>>)
  /\ inactive_run' = Cleared(inactive_run)
  /\ UNCHANGED <<now, rt_vars>>

\* An error raised while inactive or active: on_error.
Error ==
  /\ state \in {"inactive", "active"}
  /\ Commit(on_error(World))
  /\ state' = "unconfigured"
  /\ ev' = Event("error", "SUCCESS", <<>>)
  /\ inactive_run' = Cleared(inactive_run)
  /\ UNCHANGED <<now, rt_vars>>

Shutdown ==
  /\ state \in {"unconfigured", "inactive", "active"}
  /\ \E outcome \in HaltOutcomes(World) :
       IF outcome = "fault"
       THEN Crash("shutdown")
       ELSE /\ Commit(on_shutdown(World))
            /\ state' = "finalized"
            /\ ev' = Event("shutdown", "SUCCESS", <<>>)
            /\ inactive_run' = Cleared(inactive_run)
  /\ UNCHANGED <<now, rt_vars>>

\* One control cycle while the lifecycle state is not ACTIVE.
UpdateInactive ==
  /\ state \notin {"active", "crashed"}
  /\ \E outcome \in IF is_halted THEN {"defined"} ELSE HaltOutcomes(World) :
       IF outcome = "fault"
       THEN Crash("update")
       ELSE /\ Commit(update_inactive(World))
            /\ ev' = Event("update", "SUCCESS",
                           [active |-> FALSE, halted |-> ~is_halted,
                            read |-> "none", stale |-> FALSE,
                            first |-> inactive_run = "new"])
            /\ inactive_run' = "halted"
            /\ state' = state
  /\ UNCHANGED <<now, rt_vars>>

\* the non-finite value among the readings of the wheels read, if any
Worst(left_pos, right_pos) ==
  LET read == Range(left_pos) \cup Range(right_pos)
  IN IF NaN \in read THEN "nan"
     ELSE IF \E d \in read : IsInf(d) THEN "inf" ELSE "none"

\* One control cycle in the ACTIVE state with the position handles reading
\* left_pos and right_pos (read in closed loop only).
UpdateActiveOn(left_pos, right_pos) ==
  /\ state = "active"
  /\ LET r == update_active(World, now, left_pos, right_pos)
     IN /\ Commit(r.w)
        /\ ev' = Event("update", r.ret,
                       [active |-> TRUE, halted |-> FALSE,
                        read |-> Worst(left_pos, right_pos),
                        stale |-> /\ r.ret = "SUCCESS"
                                  /\ timed_out(r.stored, now, cmd_vel_timeout_),
                        first |-> FALSE])
  /\ inactive_run' = "new"
  /\ UNCHANGED <<state, now, rt_vars>>

\* The readings of one cycle: every wheel reads a position, at most one of
\* them a non-finite one (nothing is read in open loop).
Readings ==
  IF odom_params_.open_loop THEN {<<<<>>, <<>>>>}
  ELSE LET n == wheel_params_.wheels_per_side
           good == [i \in 1..n |-> Fin(Q)]
       IN {<<good, good>>}
          \cup {<<[good EXCEPT ![i] = d], good>> : i \in 1..n, d \in PosValues}
          \cup {<<good, [good EXCEPT ![i] = d]>> : i \in 1..n, d \in PosValues}

UpdateActive ==
  \E reading \in Readings : UpdateActiveOn(reading[1], reading[2])

\* A velocity message carrying twist is delivered to the subscription while
\* the topic has publisher_count publishers.
CmdVelOn(twist, publisher_count) ==
  /\ velocity_command_subscriber_
  /\ Commit(velocity_command_callback(World, twist[1], twist[2],
                                      publisher_count, now))
  /\ ev' = Event("cmd_vel", "",
                 [finite |-> IsFinite(twist[1]) /\ IsFinite(twist[2]),
                  publisher_count |-> publisher_count])
  /\ UNCHANGED <<state, now, inactive_run, rt_vars>>

CmdVelFrom(twists) ==
  \E twist \in twists, publisher_count \in PublisherCounts :
    CmdVelOn(twist, publisher_count)

CmdVel == CmdVelFrom(Twists)

Next ==
  \/ Tick
  \/ Configure
  \/ Activate
  \/ Deactivate
  \/ Cleanup
  \/ Error
  \/ Shutdown
  \/ UpdateInactive
  \/ UpdateActive
  \/ CmdVel

Spec == Init /\ [][Next]_vars

\* ================================================= the active controller
\* The controller configured from any of the profiles and activated, then
\* only control cycles and messages, the messages drawn from MixTwists.
ActiveProfiles == {OpenLoopParams, ClosedLoopParams, LimitedParams}

\* the controller configured from p at time 0 and activated
Activated(p) ==
  on_activate(on_configure(InitWorld, p, 0,
                           [found |-> TRUE, separation |-> Fin(50),
                            radius |-> Fin(10)],
                           TRUE).w)

InitActive ==
  /\ state = "active"
  /\ now = 0
  /\ \E p \in ActiveProfiles : Holds(Activated(p))
  /\ ev = Event("activate", "SUCCESS", <<>>)
  /\ inactive_run = "new"
  /\ writer_pc = <<0, "">>
  /\ writer_msg = <<Zero, Zero>>
  /\ reader_pc = "idle"
  /\ copied_cmd = ZeroCommand
  /\ written = {}
  /\ transition_pc = 0
  /\ update_pc = 0
  /\ published = NoPublications

CmdVelMix == CmdVelFrom(MixTwists)

NextActive ==
  \/ Tick
  \/ UpdateActive
  \/ CmdVelMix

SpecActive == InitActive /\ [][NextActive]_vars

\* ============================================== the channel, step by step
\* The callback (non-real-time thread) and the cycle's read of the channel
\* (real-time thread) interleaved statement by statement, with the
\* controller configured and active.

\* the statements of the callback once a message has passed its checks
callback_statements_early == <<"ang", "lin", "writeFromNonRT", "stamp">>

callback_statements == <<"ang", "lin", "stamp", "writeFromNonRT">>

\* the messages delivered: the finite ones
RtTwists == {twist \in MixTwists : IsFinite(twist[1]) /\ IsFinite(twist[2])}

InitRT ==
  /\ state = "active"
  /\ now = 0
  /\ Holds(Activated(OpenLoopParams))
  /\ ev = Event("activate", "SUCCESS", <<>>)
  /\ inactive_run = "new"
  /\ writer_pc = <<0, "">>
  /\ writer_msg = <<Zero, Zero>>
  /\ reader_pc = "idle"
  /\ copied_cmd = ZeroCommand
  /\ written = {}
  /\ transition_pc = 0
  /\ update_pc = 0
  /\ published = NoPublications

\* what neither thread touches while the channel is written and read
rest_vars ==
  <<state, config_vars, handle_vars, cycle_vars, subscriber_is_active_,
    is_halted, velocity_command_subscriber_, hw_vars, ev, inactive_run,
    transition_pc, update_pc, published>>

\* the callback's position after the statement at index
Advance(index) ==
  IF index = Len(callback_statements) THEN <<0, "">>
  ELSE <<index + 1, IF callback_statements[index + 1] = "writeFromNonRT"
                    THEN "lock" ELSE "">>

\* A message from the only publisher arrives and passes the callback's checks.
CallbackBegin ==
  /\ writer_pc = <<0, "">>
  /\ subscriber_is_active_
  /\ \E twist \in RtTwists : writer_msg' = twist
  /\ writer_pc' = Advance(0)
  /\ UNCHANGED <<now, rest_vars, channel_vars, reader_pc, copied_cmd, written>>

\* command_struct_.ang = ..; command_struct_.lin = ..; command_struct_.stamp = now
CallbackAssign ==
  /\ writer_pc[1] > 0
  /\ LET statement == callback_statements[writer_pc[1]]
     IN /\ statement \in {"ang", "lin", "stamp"}
        /\ command_struct_' =
             IF statement = "ang" THEN [command_struct_ EXCEPT !.ang = writer_msg[2]]
             ELSE IF statement = "lin" THEN [command_struct_ EXCEPT !.lin = writer_msg[1]]
             ELSE [command_struct_ EXCEPT !.stamp = now]
        /\ written' = IF statement = "stamp"
                      THEN written \cup {Commands(writer_msg[1], writer_msg[2], now)}
                      ELSE written
  /\ writer_pc' = Advance(writer_pc[1])
  /\ UNCHANGED <<now, rest_vars, command_, writer_msg, reader_pc, copied_cmd>>

\* writeFromNonRT: the mutex is taken, waiting for it if the reader holds it
WriteLock ==
  /\ writer_pc[2] = "lock"
  /\ command_.mutex = "free"
  /\ command_' = [command_ EXCEPT !.mutex = "nrt"]
  /\ writer_pc' = <<writer_pc[1], "lin">>
  /\ UNCHANGED <<now, rest_vars, command_struct_, writer_msg, reader_pc,
                 copied_cmd, written>>

\* writeFromNonRT: the argument is copied into the non-real-time slot, one
\* field at a time
WriteStore ==
  /\ writer_pc[2] \in {"lin", "ang", "stamp"}
  /\ command_' =
       IF writer_pc[2] = "lin"
       THEN [command_ EXCEPT !.non_realtime_data.lin = command_struct_.lin]
       ELSE IF writer_pc[2] = "ang"
       THEN [command_ EXCEPT !.non_realtime_data.ang = command_struct_.ang]
       ELSE [command_ EXCEPT !.non_realtime_data.stamp = command_struct_.stamp]
  /\ writer_pc' = <<writer_pc[1],
                    IF writer_pc[2] = "lin" THEN "ang"
                    ELSE IF writer_pc[2] = "ang" THEN "stamp" ELSE "flag">>
  /\ UNCHANGED <<now, rest_vars, command_struct_, writer_msg, reader_pc,
                 copied_cmd, written>>

\* writeFromNonRT: the slot is flagged as newer
WriteFlag ==
  /\ writer_pc[2] = "flag"
  /\ command_' = [command_ EXCEPT !.new_data_available = TRUE]
  /\ writer_pc' = <<writer_pc[1], "unlock">>
  /\ UNCHANGED <<now, rest_vars, command_struct_, writer_msg, reader_pc,
                 copied_cmd, written>>

\* writeFromNonRT: the mutex is released and the call returns
WriteUnlock ==
  /\ writer_pc[2] = "unlock"
  /\ command_' = [command_ EXCEPT !.mutex = "free"]
  /\ writer_pc' = Advance(writer_pc[1])
  /\ UNCHANGED <<now, rest_vars, command_struct_, writer_msg, reader_pc,
                 copied_cmd, written>>

\* readFromRT: try_lock, which returns at once whether or not it got the mutex
ReadTryLock ==
  /\ reader_pc = "idle"
  /\ IF command_.mutex = "free"
     THEN command_' = [command_ EXCEPT !.mutex = "rt"] /\ reader_pc' = "locked"
     ELSE command_' = command_ /\ reader_pc' = "return"
  /\ UNCHANGED <<now, rest_vars, command_struct_, writer_pc, writer_msg,
                 copied_cmd, written>>

\* readFromRT, the mutex held: a flagged slot is swapped in
ReadSwap ==
  /\ reader_pc = "locked"
  /\ command_' =
       IF command_.new_data_available
       THEN [command_ EXCEPT !.realtime_data = command_.non_realtime_data,
                             !.non_realtime_data = command_.realtime_data,
                             !.new_data_available = FALSE]
       ELSE command_
  /\ reader_pc' = "unlock"
  /\ UNCHANGED <<now, rest_vars, command_struct_, writer_pc, writer_msg,
                 copied_cmd, written>>

\* readFromRT: the mutex is released
ReadUnlock ==
  /\ reader_pc = "unlock"
  /\ command_' = [command_ EXCEPT !.mutex = "free"]
  /\ reader_pc' = "return"
  /\ UNCHANGED <<now, rest_vars, command_struct_, writer_pc, writer_msg,
                 copied_cmd, written>>

\* readFromRT returns the real-time slot
ReadReturn ==
  /\ reader_pc = "return"
  /\ reader_pc' = "lin"
  /\ UNCHANGED <<now, rest_vars, channel_vars, writer_pc, writer_msg,
                 copied_cmd, written>>

\* Commands copied_cmd = *(..): the slot returned is copied, one field at a time
ReadCopy ==
  /\ reader_pc \in {"lin", "ang", "stamp"}
  /\ copied_cmd' =
       IF reader_pc = "lin"
       THEN [copied_cmd EXCEPT !.lin = command_.realtime_data.lin]
       ELSE IF reader_pc = "ang"
       THEN [copied_cmd EXCEPT !.ang = command_.realtime_data.ang]
       ELSE [copied_cmd EXCEPT !.stamp = command_.realtime_data.stamp]
  /\ reader_pc' = IF reader_pc = "lin" THEN "ang"
                  ELSE IF reader_pc = "ang" THEN "stamp" ELSE "done"
  /\ UNCHANGED <<now, rest_vars, channel_vars, writer_pc, writer_msg, written>>

\* the cycle goes on with the command it has read
ReadDone ==
  /\ reader_pc = "done"
  /\ reader_pc' = "idle"
  /\ UNCHANGED <<now, rest_vars, channel_vars, writer_pc, writer_msg,
                 copied_cmd, written>>

\* a step of the cycle's read
ReaderStep ==
  ReadTryLock \/ ReadSwap \/ ReadUnlock \/ ReadReturn \/ ReadCopy \/ ReadDone

\* a step of the callback
WriterStep ==
  CallbackBegin \/ CallbackAssign \/ WriteLock \/ WriteStore \/ WriteFlag
    \/ WriteUnlock

NextRT ==
  \/ Tick
  \/ CallbackBegin
  \/ CallbackAssign
  \/ WriteLock
  \/ WriteStore
  \/ WriteFlag
  \/ WriteUnlock
  \/ ReadTryLock
  \/ ReadSwap
  \/ ReadUnlock
  \/ ReadReturn
  \/ ReadCopy
  \/ ReadDone

SpecRT == InitRT /\ [][NextRT]_vars

\* ============================================ configuration and teardown
\* The lifecycle transitions and the not-active cycle, with the parameters
\* drawn from a wider set: lists that are empty, names the hardware does
\* not know, and kinematic parameters that are not positive.

\* no left wheel named
NoLeftParams == [BaseParams EXCEPT !.left_wheel_names = <<>>]
\* the controller's defaults: no wheel and no operation mode named,
\* separation and radius 0
DefaultParams ==
  [BaseParams EXCEPT !.left_wheel_names = <<>>, !.right_wheel_names = <<>>,
                     !.write_op_modes = <<>>,
                     !.wheel_separation = Zero, !.wheel_radius = Zero]
\* a left wheel the hardware does not know
UnknownWheelParams == [BaseParams EXCEPT !.left_wheel_names = <<"l1", "lx">>]
\* no operation mode named
NoOpParams == [BaseParams EXCEPT !.write_op_modes = <<>>]
\* an operation mode the hardware does not know
UnknownOpParams == [BaseParams EXCEPT !.write_op_modes = <<"opx">>]
\* a negative wheel radius
NegativeRadiusParams == [BaseParams EXCEPT !.wheel_radius = Fin(-10)]
\* a separation multiplier of zero
ZeroMultiplierParams == [BaseParams EXCEPT !.wheel_separation_multiplier = Zero]

ConfigParamSets ==
  {OpenLoopParams, LimitedParams, MismatchedParams, NoLeftParams,
   DefaultParams, UnknownWheelParams, NoOpParams, UnknownOpParams,
   NegativeRadiusParams, ZeroMultiplierParams}

ConfigureAny == ConfigureFrom(ConfigParamSets)

NextConfigure ==
  \/ ConfigureAny
  \/ Activate
  \/ Deactivate
  \/ Cleanup
  \/ Error
  \/ Shutdown
  \/ UpdateInactive

SpecConfigure == Init /\ [][NextConfigure]_vars

\* ====================================== deactivation, statement by statement
\* on_deactivate taken one statement at a time while messages keep
\* arriving on the subscription; control cycles run between transitions,
\* never during one.

\* on_deactivate with the subscriber switched off before the wheels are halted
deactivate_statements_late == <<"subscriber", "halt">>

\* halt(); subscriber_is_active_ = false;
deactivate_statements == <<"halt", "subscriber">>

InitDeactivate ==
  /\ state = "active"
  /\ now = 0
  /\ \E p \in ActiveProfiles : Holds(Activated(p))
  /\ ev = Event("activate", "SUCCESS", <<>>)
  /\ inactive_run = "new"
  /\ writer_pc = <<0, "">>
  /\ writer_msg = <<Zero, Zero>>
  /\ reader_pc = "idle"
  /\ copied_cmd = ZeroCommand
  /\ written = {}
  /\ transition_pc = 0
  /\ update_pc = 0
  /\ published = NoPublications

\* the callback interleaved with the transition leaves its position alone
callback_vars == <<writer_pc, writer_msg, reader_pc, copied_cmd, written>>

\* The next statement of on_deactivate; the transition ends, and the node
\* is inactive, when the last one has run.
DeactivateStep ==
  /\ state = "active"
  /\ LET statement == deactivate_statements[transition_pc + 1]
         last == transition_pc + 1 = Len(deactivate_statements)
     IN /\ Commit(IF statement = "halt" THEN halt(World)
                  ELSE [World EXCEPT !.subscriber_is_active_ = FALSE])
        /\ transition_pc' = IF last THEN 0 ELSE transition_pc + 1
        /\ state' = IF last THEN "inactive" ELSE state
        /\ ev' = IF last THEN Event("deactivate", "SUCCESS", <<>>) ELSE ev
  /\ UNCHANGED <<now, inactive_run, callback_vars, update_pc, published>>

\* A control cycle of the active controller, no transition under way.
CycleBetweenTransitions ==
  /\ transition_pc = 0
  /\ UpdateActive

\* The clock advances, no transition under way.
TickBetweenTransitions ==
  /\ transition_pc = 0
  /\ Tick

NextDeactivate ==
  \/ TickBetweenTransitions
  \/ CycleBetweenTransitions
  \/ CmdVel
  \/ DeactivateStep
  \/ Activate

SpecDeactivate == InitDeactivate /\ [][NextDeactivate]_vars

\* ================================================ the limited controller
\* The controller configured with limits on its axes and activated, then
\* control cycles and messages, the messages drawn from LimiterTwists.
\* velocity within +-0.3, acceleration within +-0.2, jerk within +-0.3
AllLimits ==
  SpeedLimiter(TRUE, TRUE, TRUE, Fin(-30), Fin(30), Fin(-20), Fin(20),
               Fin(-30), Fin(30))
\* velocity within [0.5, 1.0], a range without 0; acceleration within +-0.2
ForwardLimits ==
  SpeedLimiter(TRUE, TRUE, FALSE, Fin(50), Fin(Q), Fin(-20), Fin(20), Zero, Zero)

AllLimitedParams == [BaseParams EXCEPT !.linear = AllLimits, !.angular = AllLimits]
ForwardOnlyParams ==
  [BaseParams EXCEPT !.linear = ForwardLimits, !.angular = AccelLimits]

LimiterProfiles == {LimitedParams, AllLimitedParams, ForwardOnlyParams}

LimiterTwists == { <<Fin(Q), Fin(Q)>>, <<Fin(-Q), Zero>>, <<Fin(10), Fin(-10)>> }

InitLimiter ==
  /\ state = "active"
  /\ now = 0
  /\ \E p \in LimiterProfiles : Holds(Activated(p))
  /\ ev = Event("activate", "SUCCESS", <<>>)
  /\ inactive_run = "new"
  /\ writer_pc = <<0, "">>
  /\ writer_msg = <<Zero, Zero>>
  /\ reader_pc = "idle"
  /\ copied_cmd = ZeroCommand
  /\ written = {}
  /\ transition_pc = 0
  /\ update_pc = 0
  /\ published = NoPublications

CmdVelLimiter == CmdVelFrom(LimiterTwists)

NextLimiter ==
  \/ Tick
  \/ UpdateActive
  \/ CmdVelLimiter

SpecLimiter == InitLimiter /\ [][NextLimiter]_vars

\* ============================================== the cycle, step by step
\* update() in the active state statement by statement, messages arriving
\* in between (the callback runs on another thread); every publication is
\* sent or skipped as its flag, is_activated() and trylock() decide, and
\* published holds what the cycle under way, or else the last one, has sent.

\* update() with the odometry moved behind the wheel writes
update_statements_odometry_last ==
  <<"readFromRT", "brake", "publish_wheel_data", "limit",
    "publish_limited_velocity", "set_cmd", "set_op_mode", "odometry",
    "publish_odometry", "publish_transform", "push_back">>

\* the statements of update() after the check of the lifecycle state, in
\* the order of the source
update_statements ==
  <<"odometry", "publish_odometry", "publish_transform", "readFromRT",
    "brake", "publish_wheel_data", "limit", "publish_limited_velocity",
    "set_cmd", "set_op_mode", "push_back">>

\* the topic each publishing statement publishes on
TopicOf ==
  [publish_odometry |-> "odom", publish_transform |-> "tf",
   publish_wheel_data |-> "wheel_joint_controller_state",
   publish_limited_velocity |-> "cmd_vel_out"]

PublishStatements == DOMAIN TopicOf

\* the message a publishing statement fills in: the stamp and the pose, the
\* desired wheel velocities (the mix of the command before the limiters), or
\* the limited command
message(w, cmd, statement, current_time) ==
  LET wheels == w.wheel_params_
      wheel_separation == DMul(wheels.separation_multiplier, wheels.separation)
      left_wheel_radius == DMul(wheels.left_radius_multiplier, wheels.radius)
      right_wheel_radius == DMul(wheels.right_radius_multiplier, wheels.radius)
  IN IF statement \in {"publish_odometry", "publish_transform"}
     THEN <<current_time, w.odometry_.x, w.odometry_.y, w.odometry_.heading>>
     ELSE IF statement = "publish_wheel_data"
     THEN <<current_time,
            velocity_left(cmd, wheel_separation, left_wheel_radius),
            velocity_right(cmd, wheel_separation, right_wheel_radius)>>
     ELSE <<current_time, cmd.lin, cmd.ang>>

\* publication that gives the cycle up when the message is not sent
try_publish_or_return(pubs, topic, msg, sent) ==
  [published |-> IF sent THEN [pubs EXCEPT ![topic] = msg] ELSE pubs,
   next |-> IF sent THEN "continue" ELSE "ERROR"]

\* if (flag && is_activated() && trylock()) { fill msg_; unlockAndPublish(); }
\* sent is what the condition evaluates to; the cycle goes on either way
try_publish(pubs, topic, msg, sent) ==
  [published |-> IF sent THEN [pubs EXCEPT ![topic] = msg] ELSE pubs,
   next |-> "continue"]

\* One statement of update() run on the members w with the local copy cmd of
\* the command: [w, curr_cmd, published, next], next saying whether update()
\* goes on or returns.
update_statement(w, cmd, pubs, statement, current_time, left_pos, right_pos, sent) ==
  LET wheels == w.wheel_params_
      wheel_separation == DMul(wheels.separation_multiplier, wheels.separation)
      left_wheel_radius == DMul(wheels.left_radius_multiplier, wheels.radius)
      right_wheel_radius == DMul(wheels.right_radius_multiplier, wheels.radius)
      update_dt == Fin((current_time - w.previous_update_timestamp_) * Q)
      same == [w |-> w, curr_cmd |-> cmd, published |-> pubs, next |-> "continue"]
  IN CASE statement = "odometry" ->
            LET odom == update_odometry(w, current_time, left_pos, right_pos)
            IN [same EXCEPT !.w = odom.w,
                            !.next = IF odom.ok THEN "continue" ELSE "ERROR"]
       [] statement \in PublishStatements ->
            LET sending == try_publish(pubs, TopicOf[statement],
                                       message(w, cmd, statement, current_time),
                                       sent)
            IN [same EXCEPT !.published = sending.published,
                            !.next = sending.next]
       [] statement = "readFromRT" ->
            LET buffer == readFromRT(w.command_)
            IN [same EXCEPT !.w = [w EXCEPT !.command_ = buffer],
                            !.curr_cmd = buffer.realtime_data]
       [] statement = "brake" ->
            [same EXCEPT !.curr_cmd = brake(cmd, current_time, w.cmd_vel_timeout_)]
       [] statement = "limit" ->
            [same EXCEPT !.curr_cmd =
               [cmd EXCEPT
                  !.lin = limit(w.limiter_linear_, cmd.lin, w.last0_cmd_.lin,
                                w.last1_cmd_.lin, update_dt),
                  !.ang = limit(w.limiter_angular_, cmd.ang, w.last0_cmd_.ang,
                                w.last1_cmd_.ang, update_dt)]]
       [] statement = "set_cmd" ->
            [same EXCEPT !.w =
               [w EXCEPT !.joint_cmd =
                  set_wheels(@, w.registered_left_wheel_handles_,
                             w.registered_right_wheel_handles_,
                             1, wheels.wheels_per_side,
                             velocity_left(cmd, wheel_separation, left_wheel_radius),
                             velocity_right(cmd, wheel_separation, right_wheel_radius))]]
       [] statement = "set_op_mode" ->
            [same EXCEPT !.w = set_op_mode(w, "ACTIVE")]
       [] statement = "push_back" ->
            [same EXCEPT !.w = push_back(w, cmd, current_time),
                         !.next = "SUCCESS"]

CycleProfiles == {OpenLoopParams, ClosedLoopParams}

InitCycle ==
  /\ state = "active"
  /\ now = 0
  /\ \E p \in CycleProfiles : Holds(Activated(p))
  /\ ev = Event("activate", "SUCCESS", <<>>)
  /\ inactive_run = "new"
  /\ writer_pc = <<0, "">>
  /\ writer_msg = <<Zero, Zero>>
  /\ reader_pc = "idle"
  /\ copied_cmd = ZeroCommand
  /\ written = {}
  /\ transition_pc = 0
  /\ update_pc = 0
  /\ published = NoPublications

\* The next statement of update(), the position handles reading left_pos
\* and right_pos; update() returns after the last statement, or with an
\* error.
UpdateStepOn(left_pos, right_pos, sent) ==
  /\ state = "active"
  /\ LET r == update_statement(World, copied_cmd,
                               IF update_pc = 0 THEN NoPublications ELSE published,
                               update_statements[update_pc + 1], now,
                               left_pos, right_pos, sent)
     IN /\ Commit(r.w)
        /\ copied_cmd' = r.curr_cmd
        /\ published' = r.published
        /\ update_pc' = IF r.next = "continue" THEN update_pc + 1 ELSE 0
        /\ ev' = IF r.next = "continue" THEN ev
                 ELSE Event("update", r.next,
                            [active |-> TRUE, halted |-> FALSE,
                             read |-> Worst(left_pos, right_pos),
                             stale |-> /\ r.next = "SUCCESS"
                                       /\ timed_out(command_.realtime_data, now,
                                                    cmd_vel_timeout_),
                             first |-> FALSE])
  /\ UNCHANGED <<state, now, inactive_run, writer_pc, writer_msg, reader_pc,
                 written, transition_pc>>

\* the positions are read by the odometry statement only, and only a
\* publishing statement evaluates a publisher's condition
UpdateStep ==
  LET statement == update_statements[update_pc + 1]
  IN \E reading \in IF statement = "odometry" THEN Readings ELSE {<<<<>>, <<>>>>},
        sent \in IF statement \in PublishStatements THEN BOOLEAN ELSE {FALSE} :
       UpdateStepOn(reading[1], reading[2], sent)

\* The clock advances, no cycle under way (update() reads the clock once).
TickBetweenCycles ==
  /\ update_pc = 0
  /\ Tick

\* the messages delivered: the finite twist, from one or two publishers
CmdVelCycle == CmdVelFrom({<<Fin(Q), Fin(Q)>>})

NextCycle ==
  \/ TickBetweenCycles
  \/ UpdateStep
  \/ CmdVelCycle

SpecCycle == InitCycle /\ [][NextCycle]_vars

\* ================================================================ claims
\* the wheels the controller holds handles of
LeftWheels == Range(registered_left_wheel_handles_)
RightWheels == Range(registered_right_wheel_handles_)
Wheels == LeftWheels \cup RightWheels

\* the effective kinematic parameters of a cycle
WheelSeparation == DMul(wheel_params_.separation_multiplier, wheel_params_.separation)
LeftWheelRadius == DMul(wheel_params_.left_radius_multiplier, wheel_params_.radius)
RightWheelRadius == DMul(wheel_params_.right_radius_multiplier, wheel_params_.radius)

\* the command a cycle starting in this state reads from the channel
CommandRead == readFromRT(command_).realtime_data

\* the time a cycle starting in this state finds elapsed since the last one
UpdateDt == Fin((now - previous_update_timestamp_) * Q)

\* a control cycle in the active state that returns success
SuccessfulCycle == UpdateActive /\ ev'.ret = "SUCCESS"

\* a successful active cycle that reads a command older than the timeout
StaleCycle == SuccessfulCycle /\ 1000 * (now - CommandRead.stamp) > cmd_vel_timeout_

\* no limit of any kind is enabled on the axis
Unlimited(L) ==
  ~L.has_velocity_limits /\ ~L.has_acceleration_limits /\ ~L.has_jerk_limits

\* ---------------------------------------------------------------- C1
\* C1 as stated: in every active cycle that reads a command older than
\* cmd_vel_timeout, every left and every right wheel is written 0, for every
\* limiter configuration and every command history.
C1_StaleBrakeAnyLimiter ==
  [][StaleCycle => \A j \in Wheels : joint_cmd'[j] = Zero]_vars

\* C1 amended: in every active cycle that reads a command older than
\* cmd_vel_timeout, the command handed to the limiters is (0, 0) whatever the
\* stored magnitude, so the command mixed is limit(0, last, prevLast, dt) on
\* each axis; every wheel is written 0 when no limit is enabled on either
\* axis (the effective radii being finite and non-zero).
C1_StaleBrake ==
  [][StaleCycle =>
       /\ last0_cmd_'.lin = limit(limiter_linear_, Zero, last0_cmd_.lin,
                                  last1_cmd_.lin, UpdateDt)
       /\ last0_cmd_'.ang = limit(limiter_angular_, Zero, last0_cmd_.ang,
                                  last1_cmd_.ang, UpdateDt)
       /\ ( /\ Unlimited(limiter_linear_) /\ Unlimited(limiter_angular_)
            /\ IsFinite(WheelSeparation)
            /\ IsFinite(LeftWheelRadius) /\ LeftWheelRadius # Zero
            /\ IsFinite(RightWheelRadius) /\ RightWheelRadius # Zero )
          => \A j \in Wheels : joint_cmd'[j] = Zero]_vars

\* a stale cycle has just braked a stored command of magnitude 1 with no
\* limit enabled
C1_Witness ==
  /\ ev.op = "update" /\ ev.ret = "SUCCESS" /\ ev.arg.stale
  /\ Unlimited(limiter_linear_) /\ Unlimited(limiter_angular_)
  /\ command_.realtime_data.lin = Fin(Q)
  /\ Wheels # {}
  /\ \A j \in Wheels : joint_cmd[j] = Zero

\* ---------------------------------------------------------------- C2
\* C2 as stated: in closed loop, an active cycle in which at least one wheel
\* position reading is non-finite (NaN, +infinity or -infinity) returns an
\* error and does not integrate odometry.
C2_NonFiniteReadingIsError ==
  [][\A reading \in Readings :
       ( /\ UpdateActiveOn(reading[1], reading[2])
         /\ ~odom_params_.open_loop
         /\ \E d \in Range(reading[1]) \cup Range(reading[2]) : ~IsFinite(d) )
       => (ev'.ret = "ERROR" /\ odometry_' = odometry_)]_vars

\* ---------------------------------------------------------------- C3
\* C3: a control cycle that returns an error leaves the pose, the velocity
\* estimate, the command history, the previous-cycle timestamp, the
\* operation mode and every wheel's commanded velocity (and every other
\* member) as they were before the call.
C3_ErrorCycleChangesNothing ==
  [][((UpdateActive \/ UpdateInactive) /\ ev'.ret = "ERROR") =>
       UNCHANGED <<state, now, config_vars, handle_vars, cycle_vars,
                   channel_vars, subscriber_is_active_, is_halted,
                   velocity_command_subscriber_, hw_vars>>]_vars

\* a cycle has just returned an error with the robot moved and driven
C3_Witness ==
  /\ ev.op = "update" /\ ev.ret = "ERROR" /\ ev.arg.read = "nan"
  /\ odometry_.x # Zero
  /\ last0_cmd_.lin # Zero
  /\ joint_cmd["l2"] # Zero

\* ---------------------------------------------------------------- C4
\* C4: in every successful active cycle with post-limiter command (linear,
\* angular), every left wheel is written (linear - angular*separation/2) /
\* leftRadius and every right wheel (linear + angular*separation/2) /
\* rightRadius, separation and radii being the base values times their
\* multipliers; with separation 0.5 and radius 0.1, (1.0, 0.0) gives 10.0 on
\* both sides and (0.0, 1.0) gives -2.5 left and 2.5 right.
C4_KinematicMixer ==
  [][SuccessfulCycle =>
       LET linear == last0_cmd_'.lin
           angular == last0_cmd_'.ang
           half_turn == DDiv(DMul(angular, WheelSeparation), Fin(2 * Q))
           plain == /\ WheelSeparation = Fin(50)
                    /\ LeftWheelRadius = Fin(10)
                    /\ RightWheelRadius = Fin(10)
       IN /\ \A j \in LeftWheels :
               joint_cmd'[j] = DDiv(DSub(linear, half_turn), LeftWheelRadius)
          /\ \A j \in RightWheels :
               joint_cmd'[j] = DDiv(DAdd(linear, half_turn), RightWheelRadius)
          /\ (plain /\ linear = Fin(100) /\ angular = Zero)
             => \A j \in Wheels : joint_cmd'[j] = Fin(1000)
          /\ (plain /\ linear = Zero /\ angular = Fin(100))
             => /\ \A j \in LeftWheels : joint_cmd'[j] = Fin(-250)
                /\ \A j \in RightWheels : joint_cmd'[j] = Fin(250)]_vars

\* a cycle has just mixed (0.0, 1.0) with separation 0.5 and radius 0.1
C4_Witness ==
  /\ ev.op = "update" /\ ev.ret = "SUCCESS" /\ ev.arg.active
  /\ WheelSeparation = Fin(50)
  /\ LeftWheelRadius = Fin(10) /\ RightWheelRadius = Fin(10)
  /\ last0_cmd_.lin = Zero /\ last0_cmd_.ang = Fin(100)
  /\ joint_cmd["l1"] = Fin(-250) /\ joint_cmd["l2"] = Fin(-250)
  /\ joint_cmd["r1"] = Fin(250) /\ joint_cmd["r2"] = Fin(250)

\* ---------------------------------------------------------------- C5
\* a message the callback hands to the channel
Accepted(twist, publisher_count) ==
  /\ CmdVelOn(twist, publisher_count)
  /\ subscriber_is_active_
  /\ allow_multiple_cmd_vel_publishers_ \/ publisher_count = 1
  /\ IsFinite(twist[1]) /\ IsFinite(twist[2])

\* C5: a write of a command (linear, angular, timestamp) followed by a read
\* with no other write in between returns exactly the written value, and
\* after several writes the read returns the last one: every write makes its
\* own value the one the next read returns, no step but a write (or the
\* channel's initialisation at configure) changes what the next read
\* returns, and a cycle's read returns it.
C5_ChannelRoundTrip ==
  [][/\ \A twist \in MixTwists, publisher_count \in PublisherCounts :
          Accepted(twist, publisher_count)
          => CommandRead' = Commands(twist[1], twist[2], now)
     /\ CommandRead' # CommandRead => (CmdVelMix \/ Configure)
     /\ SuccessfulCycle
          => /\ command_'.realtime_data = CommandRead
             /\ ( /\ Unlimited(limiter_linear_) /\ Unlimited(limiter_angular_)
                  /\ 1000 * (now - CommandRead.stamp) <= cmd_vel_timeout_ )
                => last0_cmd_' = CommandRead]_vars

\* a cycle has just read the second of two commands written
C5_Witness ==
  /\ ev.op = "update" /\ ev.ret = "SUCCESS" /\ ev.arg.active
  /\ command_.realtime_data = Commands(Zero, Fin(Q), 1)
  /\ command_.non_realtime_data = Commands(Fin(Q), Zero, 0)
  /\ last0_cmd_ = Commands(Zero, Fin(Q), 1)


\* ---------------------------------------------------------------- C6
\* C6: with the callback and the cycle's read interleaved at any step, every
\* read returns a complete command equal to one a message carried (or the
\* initial zero command), never a mix of the fields of two writes, and the
\* read always has a step it can take, whatever the writer is doing.
C6_NoTornReadNoBlocking ==
  /\ reader_pc = "done" => copied_cmd \in written \cup {ZeroCommand}
  /\ ENABLED ReaderStep

\* a read has just returned the first command whole while the second is
\* half copied into the channel
C6_Witness ==
  /\ reader_pc = "done"
  /\ copied_cmd = Commands(Fin(Q), Zero, 0)
  /\ writer_msg = <<Zero, Fin(Q)>>
  /\ writer_pc[2] = "ang"
  /\ command_.non_realtime_data.lin = Zero
  /\ command_.non_realtime_data.ang = Zero
  /\ now = 1

\* ---------------------------------------------------------------- C7
\* a message with a non-finite linear.x or angular.z
NonFinite(twist) == ~IsFinite(twist[1]) \/ ~IsFinite(twist[2])

\* a message that finds more than one publisher where one is allowed
MultiProducer(publisher_count) ==
  subscriber_is_active_ /\ ~allow_multiple_cmd_vel_publishers_ /\ publisher_count > 1

\* everything but the record of the last call and the clock
controller_vars ==
  <<state, config_vars, handle_vars, cycle_vars, channel_vars,
    subscriber_is_active_, is_halted, velocity_command_subscriber_, hw_vars>>

\* C7 as stated: a message whose linear.x or angular.z is non-finite is
\* ignored: the channel, the wheel commands and all controller state are
\* unchanged by it.
C7_NonFiniteIgnored ==
  [][\A twist \in Twists, publisher_count \in PublisherCounts :
       (CmdVelOn(twist, publisher_count) /\ NonFinite(twist))
       => UNCHANGED controller_vars]_vars

\* C7 amended: a message whose linear.x or angular.z is non-finite never
\* changes the channel; it leaves the wheel commands and all controller
\* state unchanged too unless it finds more than one publisher while
\* ingestion is live and multiple publishers are disallowed, in which case
\* the controller halts.
C7_NonFiniteNeverWritten ==
  [][\A twist \in Twists, publisher_count \in PublisherCounts :
       (CmdVelOn(twist, publisher_count) /\ NonFinite(twist))
       => /\ UNCHANGED channel_vars
          /\ ~MultiProducer(publisher_count) => UNCHANGED controller_vars]_vars

\* a non-finite message from the only publisher has just been handled with
\* ingestion live and the robot driven
C7_Witness ==
  /\ ev.op = "cmd_vel" /\ ~ev.arg.finite /\ ev.arg.publisher_count = 1
  /\ subscriber_is_active_
  /\ ~command_.new_data_available
  /\ command_.realtime_data.lin = Fin(Q)
  /\ joint_cmd["l1"] = Fin(750)

\* ---------------------------------------------------------------- C8
\* C8: a message that arrives while ingestion is live, with multiple
\* publishers disallowed and more than one publisher on the topic, halts the
\* controller (every wheel's commanded velocity is zero when it has been
\* handled) and is ignored (the channel is unchanged).
C8_MultiProducerHalts ==
  [][\A twist \in Twists, publisher_count \in PublisherCounts :
       (CmdVelOn(twist, publisher_count) /\ MultiProducer(publisher_count))
       => /\ Wheels = Joints
          /\ \A j \in Wheels : joint_cmd'[j] = Zero
          /\ UNCHANGED channel_vars]_vars

\* a message from one of two publishers has just stopped a driven robot
C8_Witness ==
  /\ ev.op = "cmd_vel" /\ ev.arg.publisher_count = 2
  /\ subscriber_is_active_ /\ ~allow_multiple_cmd_vel_publishers_
  /\ last0_cmd_.lin = Fin(Q)
  /\ Unlimited(limiter_linear_)
  /\ now = last0_cmd_.stamp
  /\ \A j \in Joints : joint_cmd[j] = Zero

\* ---------------------------------------------------------------- C9
\* C9: a message changes the channel only if it is handled after an activate
\* and before the next deactivate, cleanup, error or shutdown, that is, with
\* the lifecycle active; a message handled at any other time leaves the
\* channel unchanged, and a finite message from an allowed publisher handled
\* with the lifecycle active is written.
C9_IngestionGated ==
  [][\A twist \in Twists, publisher_count \in PublisherCounts :
       CmdVelOn(twist, publisher_count)
       => /\ state # "active" => UNCHANGED controller_vars
          /\ ( /\ state = "active"
               /\ ~NonFinite(twist)
               /\ allow_multiple_cmd_vel_publishers_ \/ publisher_count = 1 )
             => CommandRead' = Commands(twist[1], twist[2], now)]_vars

\* a finite message from the only publisher has just been handled after a
\* deactivate that followed a driven cycle
C9_Witness ==
  /\ state = "inactive"
  /\ ev.op = "cmd_vel" /\ ev.arg.finite /\ ev.arg.publisher_count = 1
  /\ last0_cmd_.lin = Fin(Q)
  /\ ~command_.new_data_available

\* --------------------------------------------------------------- C10
\* C10 as stated, for the cycles that have wheels to halt: in every maximal
\* run of consecutive not-active cycles the halt is performed in the first
\* cycle of the run and in no later one, whatever transitions occur between
\* the cycles.
C10_HaltOncePerRun ==
  [][(UpdateInactive /\ Wheels # {}) => (~is_halted <=> inactive_run = "new")]_vars

\* C10 amended: a not-active cycle performs the halt (zero to every wheel
\* held, operation mode ACTIVE) exactly when it is the first of its run or
\* the first since a configure, cleanup, error, shutdown or activate, each
\* of which clears the halted flag; every not-active cycle returns success
\* and does nothing else.
C10_HaltOncePerClearing ==
  [][UpdateInactive =>
       /\ ev'.ret = "SUCCESS"
       /\ ~is_halted <=> inactive_run \in {"new", "cleared"}
       /\ ~is_halted =>
            /\ \A j \in Wheels : joint_cmd'[j] = Zero
            /\ \A j \in Joints \ Wheels : joint_cmd'[j] = joint_cmd[j]
            /\ \A m \in Range(registered_operation_mode_handles_) :
                 op_mode'[m] = "ACTIVE"
            /\ is_halted'
       /\ is_halted => UNCHANGED <<is_halted, hw_vars>>
       /\ UNCHANGED <<state, now, config_vars, handle_vars, cycle_vars,
                      channel_vars, subscriber_is_active_,
                      velocity_command_subscriber_>>]_vars

\* a not-active cycle that is not the first of its run has just halted the
\* wheels again
C10_Witness ==
  /\ ev.op = "update" /\ ~ev.arg.active /\ ev.arg.halted /\ ~ev.arg.first
  /\ Wheels = Joints
  /\ is_halted
  /\ \A m \in OpNames : op_mode[m] = "ACTIVE"

\* --------------------------------------------------------------- C11
\* C11: deactivate writes zero velocity to every wheel before it disables
\* command ingestion (the statement that switches ingestion off finds every
\* wheel's command already zero, whatever messages arrive in between), and
\* when it returns every wheel's commanded velocity is zero and ingestion
\* is disabled.
C11_HaltsThenDisables ==
  [][DeactivateStep =>
       /\ Wheels = Joints
       /\ (subscriber_is_active_ /\ ~subscriber_is_active_')
            => \A j \in Wheels : joint_cmd[j] = Zero
       /\ state' = "inactive"
            => /\ \A j \in Wheels : joint_cmd'[j] = Zero
               /\ ~subscriber_is_active_']_vars

\* deactivate has just returned on a robot that was being driven, with a
\* message written to the channel and not yet read
C11_Witness ==
  /\ state = "inactive" /\ ev.op = "deactivate"
  /\ last0_cmd_.lin = Fin(Q) /\ now = last0_cmd_.stamp
  /\ Unlimited(limiter_linear_)
  /\ command_.new_data_available
  /\ ~subscriber_is_active_
  /\ \A j \in Joints : joint_cmd[j] = Zero

\* --------------------------------------------------------------- C12
\* the pose at the origin and the velocity estimate zero
AtOrigin(o) ==
  /\ o.x = Zero /\ o.y = Zero /\ o.heading = Zero
  /\ o.linear = Zero /\ o.angular = Zero

\* the linear and the angular speed of a command are both zero
Still(cmd) == cmd.lin = Zero /\ cmd.ang = Zero

\* C12 as stated: each of the cleanup, error and shutdown transitions,
\* started from any prior state (active with non-zero wheel commands
\* included), leaves the commanded velocity of every wheel the controller
\* held at zero when it completes.
C12_TeardownStopsWheels ==
  [][(Cleanup \/ Error \/ Shutdown) =>
       \A j \in Wheels : joint_cmd'[j] = Zero]_vars

\* --------------------------------------------------------------- C13
\* C13: after each of cleanup, error and shutdown completes, the left
\* wheel, right wheel and operation-mode handle sets are all empty, the
\* pose is (0, 0, 0) and the velocity estimate is zero.
C13_TeardownReleasesAndResets ==
  [][((Cleanup \/ Error \/ Shutdown) /\ ev'.ret = "SUCCESS") =>
       /\ registered_left_wheel_handles_' = <<>>
       /\ registered_right_wheel_handles_' = <<>>
       /\ registered_operation_mode_handles_' = <<>>
       /\ AtOrigin(odometry_')]_vars

\* an error transition has just completed on a robot that had moved: the
\* cycle at time 1 integrated a linear speed of 1 over one second
C13_Witness ==
  /\ ev.op = "error" /\ state = "unconfigured"
  /\ odom_params_.open_loop
  /\ odometry_.timestamp = 1 /\ last1_cmd_.lin = Fin(Q)
  /\ Wheels = {} /\ registered_operation_mode_handles_ = <<>>
  /\ AtOrigin(odometry_)

C15_TeardownIdempotentNeverFaults ==
  state \in {"unconfigured", "inactive", "active"} =>
    /\ HaltOutcomes(World) = {"defined"}
    /\ on_cleanup(on_cleanup(World)) = on_cleanup(World)
    /\ on_error(on_error(World)) = on_error(World)
    /\ on_shutdown(on_shutdown(World)) = on_shutdown(World)

\* --------------------------------------------------------------- C16
\* a transition that leaves the active state: deactivate, or error or
\* shutdown taken while active
ErrorOrShutdownFromActive == state = "active" /\ (Error \/ Shutdown)

ConfigureInputs ==
  ConfigParamSets \X Urdfs \X BOOLEAN \X (Undefined \cup {"defined"})

\* the configure transition on the inputs c
ConfigureWith(c) == ConfigureOn(c[1], c[2], c[3], c[4])

\* the robot description is not needed or gives what is looked up
LookupSucceeds(p, urdf) ==
  (p.wheel_separation # Zero /\ p.wheel_radius # Zero) \/ urdf.found

\* C17 as stated: configure fails with an error (it returns ERROR or
\* FAILURE and the node stays unconfigured) whenever the numbers of left and
\* right wheel names differ, and after any successful configure the left
\* and right handle sets have the same size.
C17_SizeMismatchFails ==
  [][\A c \in ConfigureInputs :
       ConfigureWith(c) =>
         LET p == c[1]
             differ == Len(p.left_wheel_names) # Len(p.right_wheel_names)
         IN /\ differ => ( /\ ev'.ret \in {"ERROR", "FAILURE"}
                           /\ state' = "unconfigured" )
            /\ ev'.ret = "SUCCESS"
               => Len(registered_left_wheel_handles_')
                    = Len(registered_right_wheel_handles_')]_vars

\* What holds of a size mismatch: configure never returns success and never
\* leaves the node inactive, it returns ERROR at the size check when both
\* lists are non-empty and the kinematic parameters are resolved, and after
\* any successful configure the two handle sets have the same size.
SizeMismatchNeverSucceeds ==
  [][\A c \in ConfigureInputs :
       ConfigureWith(c) =>
         LET p == c[1]
             differ == Len(p.left_wheel_names) # Len(p.right_wheel_names)
         IN /\ differ => (ev'.ret # "SUCCESS" /\ state' # "inactive")
            /\ ( /\ differ /\ LookupSucceeds(p, c[2])
                 /\ p.left_wheel_names # <<>> /\ p.right_wheel_names # <<>> )
               => ev'.ret = "ERROR"
            /\ ev'.ret = "SUCCESS"
               => Len(registered_left_wheel_handles_')
                    = Len(registered_right_wheel_handles_')]_vars

\* --------------------------------------------------------------- C18
\* a wheel list or the operation-mode list is empty, or names something
\* the hardware cannot resolve
EmptyOrUnresolvable(p) ==
  \/ p.left_wheel_names = <<>>
  \/ p.right_wheel_names = <<>>
  \/ p.write_op_modes = <<>>
  \/ \E name \in Range(p.left_wheel_names) \cup Range(p.right_wheel_names) :
       name \notin Joints
  \/ \E name \in Range(p.write_op_modes) : name \notin OpNames

\* C18 as stated: configure fails with an error, without faulting (it
\* returns ERROR or FAILURE and the node stays unconfigured), whenever the
\* left or the right wheel list or handle set is empty or any wheel or
\* operation-mode handle cannot be resolved, and it never returns success
\* with an empty left, right or operation-mode handle set.
C18_EmptyOrUnresolvedFails ==
  [][\A c \in ConfigureInputs :
       ConfigureWith(c) =>
         /\ EmptyOrUnresolvable(c[1])
              => (ev'.ret \in {"ERROR", "FAILURE"} /\ state' = "unconfigured")
         /\ ev'.ret = "SUCCESS"
              => /\ registered_left_wheel_handles_' # <<>>
                 /\ registered_right_wheel_handles_' # <<>>
                 /\ registered_operation_mode_handles_' # <<>>]_vars

\* What holds of empty lists and unresolved names: configure never returns
\* success with one, and a successful configure leaves every handle set
\* non-empty with every handle resolved.
EmptyOrUnresolvedNeverSucceeds ==
  [][\A c \in ConfigureInputs :
       ConfigureWith(c) =>
         /\ EmptyOrUnresolvable(c[1]) => ev'.ret # "SUCCESS"
         /\ ev'.ret = "SUCCESS"
              => /\ registered_left_wheel_handles_' # <<>>
                 /\ registered_right_wheel_handles_' # <<>>
                 /\ registered_operation_mode_handles_' # <<>>
                 /\ ~Unresolved(World')]_vars

\* --------------------------------------------------------------- C19
\* a double that is finite and greater than zero
Positive(d) == IsFinite(d) /\ DGt(d, Zero)

\* C19 as stated: after any successful configure the resolved wheel
\* separation, left wheel radius and right wheel radius (raw parameter
\* times its multiplier) are all strictly positive; configure fails
\* whenever any of them would be zero or negative.
C19_KinematicsPositive ==
  [][(ConfigureAny /\ ev'.ret = "SUCCESS") =>
       /\ Positive(WheelSeparation')
       /\ Positive(LeftWheelRadius')
       /\ Positive(RightWheelRadius')]_vars

\* --------------------------------------------------------------- C20
\* C20: after every successful configure, whatever happened before it
\* (earlier active operation included), the pose is (0, 0, 0), the velocity
\* estimate is zero, last and prevLast are the zero command and the Command
\* Channel holds the zero command, which is what the next read returns.
C20_ConfigureZeroesCycleState ==
  [][(Configure /\ ev'.ret = "SUCCESS") =>
       /\ AtOrigin(odometry_')
       /\ last0_cmd_' = ZeroCommand
       /\ last1_cmd_' = ZeroCommand
       /\ command_'.realtime_data = ZeroCommand
       /\ CommandRead' = ZeroCommand]_vars

\* a configure has just succeeded on a controller that had accepted a
\* command of 1 and run a control cycle at time 1 before it was torn down
C20_Witness ==
  /\ ev.op = "configure" /\ ev.ret = "SUCCESS" /\ state = "inactive"
  /\ command_struct_.lin = Fin(Q)
  /\ odometry_.timestamp = 1
  /\ AtOrigin(odometry_)
  /\ last0_cmd_ = ZeroCommand /\ last1_cmd_ = ZeroCommand
  /\ command_ = initRT(ZeroCommand)


\* ---------------------------------------------------------------- C21
\* the step from v0 to v lies within the acceleration bounds of L over dt
WithinAcceleration(L, v0, v, dt) ==
  /\ ~DLt(DSub(v, v0), DMul(L.min_acceleration, dt))
  /\ ~DGt(DSub(v, v0), DMul(L.max_acceleration, dt))

\* v0 can be kept: it lies within the velocity range of L when velocity
\* limiting is enabled, and the acceleration bounds of L allow a step of 0
Tenable(L, v0) ==
  /\ L.has_velocity_limits =>
       ~DLt(v0, L.min_velocity) /\ ~DGt(v0, L.max_velocity)
  /\ ~DGt(L.min_acceleration, Zero) /\ ~DLt(L.max_acceleration, Zero)

\* C21 as stated: with acceleration limiting enabled on an axis, the limited
\* value v of every successful cycle with dt > 0 satisfies
\* min_acceleration * dt <= v - v0 <= max_acceleration * dt, v0 the limited
\* value of the previous cycle (zero after configure), whatever other limits
\* are enabled.
C21_AccelerationBounded ==
  [][SuccessfulCycle /\ DGt(UpdateDt, Zero) =>
       /\ limiter_linear_.has_acceleration_limits =>
            WithinAcceleration(limiter_linear_, last0_cmd_.lin,
                               last0_cmd_'.lin, UpdateDt)
       /\ limiter_angular_.has_acceleration_limits =>
            WithinAcceleration(limiter_angular_, last0_cmd_.ang,
                               last0_cmd_'.ang, UpdateDt)]_vars

\* C21 amended: the same bound on every axis with acceleration limiting
\* enabled whose previous value v0 can be kept (v0 within the velocity range
\* when velocity limiting is enabled, and min_acceleration <= 0 <=
\* max_acceleration), with or without jerk limiting.
C21_AccelerationBoundedFromTenable ==
  [][SuccessfulCycle /\ DGt(UpdateDt, Zero) =>
       /\ ( /\ limiter_linear_.has_acceleration_limits
            /\ Tenable(limiter_linear_, last0_cmd_.lin) )
          => WithinAcceleration(limiter_linear_, last0_cmd_.lin,
                                last0_cmd_'.lin, UpdateDt)
       /\ ( /\ limiter_angular_.has_acceleration_limits
            /\ Tenable(limiter_angular_, last0_cmd_.ang) )
          => WithinAcceleration(limiter_angular_, last0_cmd_.ang,
                                last0_cmd_'.ang, UpdateDt)]_vars

\* a cycle one second after configure, with velocity, acceleration and jerk
\* limits enabled, has moved the linear command from 0 by exactly the
\* largest step the acceleration limit allows (0.2), the stored command
\* asking for 1.0
C21_Witness ==
  /\ ev.op = "update" /\ ev.ret = "SUCCESS" /\ ev.arg.active
  /\ limiter_linear_ = AllLimits
  /\ now = 1 /\ previous_update_timestamp_ = 1
  /\ command_.realtime_data.lin = Fin(Q)
  /\ last1_cmd_.lin = Zero
  /\ last0_cmd_.lin = Fin(20)


\* ---------------------------------------------------------------- C22
\* the command a cycle starting in this state hands to the limiters
Candidate == brake(CommandRead, now, cmd_vel_timeout_)

\* the elapsed times that are not positive: none, and one second backwards
NonPositiveDts == {Zero, Fin(-Q)}

\* C22: in every successful cycle with dt <= 0 no limiting is applied: on
\* both axes the command kept as last equals the candidate (the command read,
\* zeroed when stale), whatever limits are enabled and whatever the history;
\* and for the limiters and history of every cycle, limit returns the
\* candidate unchanged for every dt <= 0.
C22_NoLimitingWithoutElapsedTime ==
  [][SuccessfulCycle =>
       /\ ~DGt(UpdateDt, Zero) =>
            /\ last0_cmd_'.lin = Candidate.lin
            /\ last0_cmd_'.ang = Candidate.ang
       /\ \A dt \in NonPositiveDts :
            /\ limit(limiter_linear_, Candidate.lin, last0_cmd_.lin,
                     last1_cmd_.lin, dt) = Candidate.lin
            /\ limit(limiter_angular_, Candidate.ang, last0_cmd_.ang,
                     last1_cmd_.ang, dt) = Candidate.ang]_vars

\* a cycle at the time of the previous one, with velocity, acceleration and
\* jerk limits enabled, has kept a linear command of 1.0, which is outside
\* the velocity range and further from the last command than the
\* acceleration limit allows in any cycle
C22_Witness ==
  /\ ev.op = "update" /\ ev.ret = "SUCCESS" /\ ev.arg.active
  /\ now = 0 /\ previous_update_timestamp_ = 0
  /\ limiter_linear_ = AllLimits
  /\ last1_cmd_.lin = Zero
  /\ last0_cmd_.lin = Fin(Q)


\* ---------------------------------------------------------------- C23
\* the statements the cycle under way has run
Done == {update_statements[i] : i \in 1..update_pc}

\* the cycle runs the statement s
UpdateStatement(s) == UpdateStep /\ update_statements[update_pc + 1] = s

\* C23: within one active cycle the odometry is updated before the channel
\* is read, and the channel is read before any wheel command is written:
\* the read finds the odometry statement run and no wheel written, and every
\* step of the cycle that writes a wheel command or an operation mode finds
\* the odometry statement and the read run, the odometry being that of the
\* cycle's own time.
C23_OdometryThenReadThenWrite ==
  [][/\ UpdateStatement("readFromRT") =>
          /\ "odometry" \in Done
          /\ Done \cap {"set_cmd", "set_op_mode"} = {}
     /\ (UpdateStep /\ hw_vars' # hw_vars) =>
          /\ {"odometry", "readFromRT"} \subseteq Done
          /\ odometry_.timestamp = now]_vars

\* a cycle at time 1 has just written non-zero wheel commands from the
\* command it read, its odometry updated, its operation mode not yet set
C23_Witness ==
  /\ state = "active" /\ now = 1
  /\ "set_cmd" \in Done /\ "set_op_mode" \notin Done
  /\ odometry_.timestamp = 1
  /\ copied_cmd.lin = Fin(Q)
  /\ \A j \in Wheels : joint_cmd[j] # Zero


\* ---------------------------------------------------------------- C24
\* C24 as stated: the callback of the command subscription never writes a
\* hardware command handle (a wheel command, an operation mode), the pose or
\* the command history, whatever message it is handed, accepted or rejected.
C24_IngestionWritesChannelOnly ==
  [][\A twist \in Twists, publisher_count \in PublisherCounts :
       CmdVelOn(twist, publisher_count)
         => UNCHANGED <<hw_vars, odometry_, last0_cmd_, last1_cmd_,
                        previous_update_timestamp_>>]_vars

\* what does hold: the callback never writes the pose or the command
\* history, and writes the hardware only when it halts on a second publisher
IngestionKeepsPoseAndHistory ==
  [][\A twist \in Twists, publisher_count \in PublisherCounts :
       CmdVelOn(twist, publisher_count)
         => /\ UNCHANGED <<odometry_, last0_cmd_, last1_cmd_,
                           previous_update_timestamp_>>
            /\ hw_vars' # hw_vars =>
                 /\ MultiProducer(publisher_count)
                 /\ subscriber_is_active_]_vars


\* ---------------------------------------------------------------- C25
\* the command a cycle starting in this state keeps and mixes: the candidate
\* with each axis limited against the history
Limited ==
  [Candidate EXCEPT
     !.lin = limit(limiter_linear_, Candidate.lin, last0_cmd_.lin,
                   last1_cmd_.lin, UpdateDt),
     !.ang = limit(limiter_angular_, Candidate.ang, last0_cmd_.ang,
                   last1_cmd_.ang, UpdateDt)]

\* C25: after every successful active cycle last1_cmd_ is what last0_cmd_
\* was before the cycle, last0_cmd_ is the cycle's limited command (the
\* command read, zeroed when stale, then limited), which is the command mixed
\* to the wheels, and previous_update_timestamp_ is the cycle's time; and
\* every step that changes last0_cmd_, last1_cmd_ or
\* previous_update_timestamp_ is a successful active cycle or a configure.
C25_HistoryShift ==
  [][/\ SuccessfulCycle =>
          /\ last1_cmd_' = last0_cmd_
          /\ last0_cmd_' = Limited
          /\ previous_update_timestamp_' = now
          /\ \A j \in LeftWheels :
               joint_cmd'[j] = velocity_left(last0_cmd_', WheelSeparation,
                                             LeftWheelRadius)
          /\ \A j \in RightWheels :
               joint_cmd'[j] = velocity_right(last0_cmd_', WheelSeparation,
                                              RightWheelRadius)
     /\ <<last0_cmd_, last1_cmd_, previous_update_timestamp_>>'
          # <<last0_cmd_, last1_cmd_, previous_update_timestamp_>>
        => SuccessfulCycle \/ ev'.op = "configure"]_vars

\* a stale cycle one second after a cycle that kept (1.0, 1.0), under
\* acceleration limits of 0.5: the zeroed command limited to 0.5 is the last
\* command, the command of the cycle before is the one before the last
C25_Witness ==
  /\ ev.op = "update" /\ ev.ret = "SUCCESS" /\ ev.arg.stale
  /\ limiter_linear_ = AccelLimits
  /\ last1_cmd_.lin = Fin(Q) /\ last0_cmd_.lin = Fin(50)
  /\ now = 1 /\ previous_update_timestamp_ = 1
  /\ Wheels # {}


\* ---------------------------------------------------------------- C26
\* every wheel's position handle reading d
AllReading(d) == [i \in 1..wheel_params_.wheels_per_side |-> d]

\* C26: in open loop the odometry of every successful cycle is
\* updateOpenLoop of last0_cmd_ as the cycle found it (the limited command of
\* the previous successful cycle, the zero command after configure), whatever
\* command the cycle reads and whatever the position handles read, a
\* non-finite reading included; with last0_cmd_ zero on entry the pose does
\* not move.
C26_OpenLoopIntegratesLast ==
  [][(SuccessfulCycle /\ odom_params_.open_loop) =>
       /\ odometry_' = updateOpenLoop(odometry_, last0_cmd_.lin, last0_cmd_.ang, now)
       /\ \A d \in PosValues :
            LET r == update_active(World, now, AllReading(d), AllReading(d))
            IN r.ret = "SUCCESS" /\ r.w.odometry_ = odometry_'
       /\ Still(last0_cmd_) =>
            /\ odometry_'.x = odometry_.x
            /\ odometry_'.y = odometry_.y
            /\ odometry_'.heading = odometry_.heading]_vars

\* a cycle in open loop one second after configure has read, limited and
\* kept a command of 1.0 from a zero history, and the pose is still at the
\* origin: the second it integrated was a second of the zero command
C26_Witness ==
  /\ ev.op = "update" /\ ev.ret = "SUCCESS" /\ ev.arg.active
  /\ odom_params_.open_loop
  /\ now = 1 /\ odometry_.timestamp = 1 /\ previous_update_timestamp_ = 1
  /\ last1_cmd_ = ZeroCommand
  /\ last0_cmd_.lin = Fin(Q)
  /\ AtOrigin(odometry_)


\* ---------------------------------------------------------------- C27
\* C27: a control cycle, active or not, successful or not, leaves the
\* command a read of the channel returns as it was, and never touches the
\* callback's command_struct_; after a cycle that braked on a stale command
\* the channel still holds the stored command, its linear and angular speeds
\* and its stamp as they were written, the zeroes being in the command the
\* cycle kept.
C27_CycleKeepsChannel ==
  [][/\ (UpdateActive \/ UpdateInactive) =>
          /\ readFromRT(command_').realtime_data = CommandRead
          /\ command_struct_' = command_struct_
     /\ StaleCycle =>
          /\ command_'.realtime_data = CommandRead
          /\ last0_cmd_' = Limited]_vars

\* a cycle without limits has braked on a command of (1.0, 1.0) written at
\* time 0: it kept the zero command, and the channel holds (1.0, 1.0)
\* stamped 0
C27_Witness ==
  /\ ev.op = "update" /\ ev.ret = "SUCCESS" /\ ev.arg.stale
  /\ Unlimited(limiter_linear_) /\ Unlimited(limiter_angular_)
  /\ Still(last0_cmd_)
  /\ readFromRT(command_).realtime_data = Commands(Fin(Q), Fin(Q), 0)
  /\ now = 1


ModesSet(mode) ==
  \A m \in Range(registered_operation_mode_handles_) : op_mode'[m] = mode

\* C29: every registered operation mode handle is ACTIVE after every
\* successful active cycle and after every halt (the halt of a not-active
\* cycle, deactivate, cleanup, shutdown, the callback's halt on a second
\* publisher); an operation mode becomes INACTIVE only in a successful
\* configure, which leaves every handle it registered INACTIVE.
C29_OperationModes ==
  [][/\ SuccessfulCycle => ModesSet("ACTIVE")
     /\ (UpdateInactive /\ ~is_halted) => ModesSet("ACTIVE")
     /\ (Deactivate \/ Cleanup \/ Shutdown) => ModesSet("ACTIVE")
     /\ \A twist \in Twists, publisher_count \in PublisherCounts :
          (CmdVelOn(twist, publisher_count) /\ MultiProducer(publisher_count))
            => ModesSet("ACTIVE")
     /\ \A m \in OpNames :
          (op_mode'[m] = "INACTIVE" /\ op_mode[m] # "INACTIVE")
            => ev'.op = "configure" /\ ev'.ret = "SUCCESS"
     /\ (ev'.op = "configure" /\ ev'.ret = "SUCCESS") =>
          \A m \in Range(registered_operation_mode_handles_') :
            op_mode'[m] = "INACTIVE"]_vars

\* a successful active cycle with two operation mode handles registered
\* has just ended: both are ACTIVE
C29_Witness ==
  /\ ev.op = "update" /\ ev.ret = "SUCCESS" /\ ev.arg.active
  /\ Len(registered_operation_mode_handles_) = 2
  /\ \A m \in OpNames : op_mode[m] = "ACTIVE"


\* ---------------------------------------------------------------- C30
\* every handle in the sequence is one the hardware resolved
AllResolved(handles, known) == \A i \in 1..Len(handles) : handles[i] \in known

\* C30: in every state with the node active (transitions and cycles each
\* one step, so serialised), the left and the right wheel handles are
\* exactly wheels_per_side each, wheels_per_side is at least 1, there is an
\* operation mode handle, and every handle is a resolved one: the active
\* cycle's indices 0 .. wheels_per_side - 1 all exist.
C30_ActiveHandlesComplete ==
  state = "active" =>
    /\ wheel_params_.wheels_per_side >= 1
    /\ Len(registered_left_wheel_handles_) = wheel_params_.wheels_per_side
    /\ Len(registered_right_wheel_handles_) = wheel_params_.wheels_per_side
    /\ Len(registered_operation_mode_handles_) >= 1
    /\ AllResolved(registered_left_wheel_handles_, Joints)
    /\ AllResolved(registered_right_wheel_handles_, Joints)
    /\ AllResolved(registered_operation_mode_handles_, OpNames)

\* the node is active again after an error taken with the wheels running
\* and a second configure: activate has just returned, the wheel commands of
\* the first activation still standing
C30_Witness ==
  /\ state = "active" /\ ev.op = "activate"
  /\ wheel_params_.wheels_per_side = 2
  /\ \E j \in Joints : joint_cmd[j] # Zero


\* --------------------------------------------------------------- C31
\* no command has been accepted since the last successful configure: the
\* Command Channel is as on_configure left it (every message the callback
\* accepts writes a stamped non-zero command and raises new_data_available)
NoCommandSinceConfigure == command_ = initRT(ZeroCommand)

\* the axis has no velocity limit in force, or 0 lies within its bounds
ZeroWithinVelocityBounds(L) ==
  \/ ~L.has_velocity_limits
  \/ ~DGt(L.min_velocity, Zero) /\ ~DLt(L.max_velocity, Zero)

\* C31: after a successful configure and activate, as long as no command
\* has been accepted since that configure, every active control cycle writes
\* zero velocity to every wheel (limiters disabled, or 0 inside the configured
\* velocity bounds), even when commands were accepted and applied before
\* that configure.
C31_NoMotionBeforeCommand ==
  [][( /\ SuccessfulCycle
       /\ NoCommandSinceConfigure
       /\ ZeroWithinVelocityBounds(limiter_linear_)
       /\ ZeroWithinVelocityBounds(limiter_angular_) )
       => \A j \in Wheels : joint_cmd'[j] = Zero]_vars

\* an active cycle at time 1 has written zero to every wheel of a controller
\* that accepted a command of 1 before its last configure (the callback's
\* command_struct_ still holds it) and none since
C31_Witness ==
  /\ ev.op = "update" /\ ev.ret = "SUCCESS" /\ state = "active"
  /\ command_struct_.lin = Fin(Q)
  /\ command_ = initRT(ZeroCommand)
  /\ now = 1 /\ previous_update_timestamp_ = 1
  /\ Wheels # {}
  /\ \A j \in Wheels : joint_cmd[j] = Zero


\* --------------------------------------------------------------- C32
\* the first active cycle after a re-activation: the last call was
\* on_activate and the channel holds a command accepted since the last
\* configure, so the subscriber was active, and hence the controller
\* activated and deactivated, earlier under the same configuration
FirstCycleAfterReactivation ==
  /\ SuccessfulCycle
  /\ ev.op = "activate"
  /\ ~NoCommandSinceConfigure

\* C32 as stated: after deactivate followed by activate, with no cleanup or
\* configure in between and no command accepted since the activate, every
\* active control cycle writes zero velocity to every wheel when no limit is
\* enabled, even when the command accepted before the deactivation is still
\* younger than the timeout.
C32_NoOldCommandAfterReactivation ==
  [][( /\ FirstCycleAfterReactivation
       /\ Unlimited(limiter_linear_) /\ Unlimited(limiter_angular_) )
       => \A j \in Wheels : joint_cmd'[j] = Zero]_vars


\* --------------------------------------------------------------- C33
\* the first active cycle after the callback has halted the wheels for a
\* second publisher: the last call was a message handled on the
\* multi-publisher branch, which accepts nothing into the channel
FirstCycleAfterMultiProducerHalt ==
  /\ SuccessfulCycle
  /\ ev.op = "cmd_vel"
  /\ MultiProducer(ev.arg.publisher_count)

\* C33 as stated: after the ingestion path has halted the wheels because more
\* than one producer was detected, every wheel's commanded velocity stays
\* zero in the following control cycles until a new command is accepted into
\* the Command Channel, even when the previously stored command is still
\* within the timeout. (The first such cycle is the one the formula reads.)
C33_MultiProducerHaltPersists ==
  [][FirstCycleAfterMultiProducerHalt
       => \A j \in Wheels : joint_cmd'[j] = Zero]_vars

====
